---- MODULE Spec2Model ----
(***************************************************************************)
(* Payment-schedule reconciliation and monthly aggregation of the          *)
(* cashflow dashboard: the project form (ProjectFormModal and its          *)
(* sub-modules), the two registered save callbacks, the transaction        *)
(* module (saveEntry / deleteTransaction / refetchTransactionData /        *)
(* processAllTransactions) and the record store behind them.               *)
(*                                                                         *)
(* Conventions.  A null or empty string field is "", a missing amount or   *)
(* an empty/invalid numeric input is 0 (null * x = 0 in the arithmetic of  *)
(* the source).  A null payment_schedule is the schedule of type "null".   *)
(* Dates and titles are strings, built and compared as the source does.    *)
(* The fields src (of a transaction) and mid (of a milestone and of a      *)
(* form row) are history fields: they record which milestone a record was  *)
(* created for and which stored milestone a row was populated from; born  *)
(* (of a transaction) records the save that inserted it.  No guard and no  *)
(* computed value of the program reads them.                               *)
(***************************************************************************)
EXTENDS Integers, Sequences, FiniteSets, TLC

\* ---- bounds of the model ------------------------------------------------
MaxTx == 3
MaxRows == 2
MaxMid == 3
MaxSaves == 1
MaxEntries == 2
MaxPending == 2

\* ---- input sets ---------------------------------------------------------
ProjectIds == {1}
Names == {"A", "B"}
PctInputs == {0, 50}
StatusInputs == {"invoice"}
DUE1 == "2025-08-05"
TODAY == "2025-08-15"
\* the target date of the stored quotation and the day the stored projects
\* were created (the date part of created_at)
QUOTED == "2025-08-10"
CREATED == "2025-07-01"
EntryDates == {"2025-07-20", "2024-12-15", "2025-10-03"}
EntryKinds == {[type |-> "income", amount |-> 100],
               [type |-> "expense", amount |-> 40],
               [type |-> "payable", amount |-> 70]}

manualStatuses == {"inquiry", "quotation", "invoice"}
autoStatuses == {"partially_paid", "completed"}
projectStatuses == manualStatuses \cup autoStatuses
InvoiceStages == {"invoice", "partially_paid", "completed"}
AmountStages == {"quotation"} \cup InvoiceStages

VARIABLES
    dbProjects,       \* store: table projects, a function id -> row
    dbTransactions,   \* store: table transactions, a sequence of rows
    allTransactions,  \* transactions.js: module-level cache
    allProjects,      \* window.allProjects
    currentDate,      \* calendar.js: the viewed month [y, m]
    agg,              \* output of the last processAllTransactions
    form,             \* the DOM state of #project-form and the modal fields
    onSaveCallback,   \* which callback is registered: "sidebar" or "contact"
    nextMid,          \* history: next fresh milestone identity
    saves,            \* history: number of completed save() calls
    last,             \* history: what the last handler did
    dayModal,         \* modals.js: currentSelectedDate and #currentDayEntriesList
    pending,          \* the refetchTransactionData calls in flight
    monthlyGoal       \* table monthly_goals (this month's row) and the goal card

vars == <<dbProjects, dbTransactions, allTransactions, allProjects,
          currentDate, agg, form, onSaveCallback, nextMid, saves, last,
          dayModal, pending, monthlyGoal>>

\* ---- generic helpers ----------------------------------------------------
Range(s) == {s[i] : i \in 1..Len(s)}

RemoveAt(s, i) == SubSeq(s, 1, i - 1) \o SubSeq(s, i + 1, Len(s))

FreshId(db) == CHOOSE n \in 1..(Len(db) + 1) : \A i \in 1..Len(db) : db[i].id # n

\* ---- payment schedules --------------------------------------------------
NullSchedule ==
    [type |-> "null", due_date |-> "", completed |-> FALSE, milestones |-> <<>>]

FullSchedule(due, done) ==
    [type |-> "full", due_date |-> due, completed |-> done, milestones |-> <<>>]

StaggeredSchedule(ms) ==
    [type |-> "staggered", due_date |-> "", completed |-> FALSE, milestones |-> ms]

Milestone(pct, due, done, mid) ==
    [percentage |-> pct, due_date |-> due, completed |-> done, mid |-> mid]

\* ---- ProjectFormRenderer ------------------------------------------------
Row(pct, due, done, mid) ==
    [percentage |-> pct, due_date |-> due, completed |-> done, mid |-> mid]

\* the forEach over .milestone-row of autoUpdateProjectStatus:
\* <<totalMilestones, completedMilestones>>
RECURSIVE CountMilestoneRows(_, _, _)
CountMilestoneRows(rows, totalMilestones, completedMilestones) ==
    IF rows = <<>> THEN <<totalMilestones, completedMilestones>>
    ELSE LET row == Head(rows)
             percentage == row.percentage
         IN  IF percentage > 0
             THEN CountMilestoneRows(Tail(rows), totalMilestones + 1,
                      IF row.completed THEN completedMilestones + 1
                                       ELSE completedMilestones)
             ELSE CountMilestoneRows(Tail(rows), totalMilestones, completedMilestones)

\* StatusFromFields with every row counted, whatever its percentage
StatusFromFieldsAllRows(f) ==
    IF f.paymentType = "full"
    THEN (IF f.fullCompleted THEN "completed" ELSE "invoice")
    ELSE IF f.paymentType = "staggered"
    THEN LET totalMilestones == Len(f.rows)
             completedMilestones ==
                 Len(SelectSeq(f.rows, LAMBDA row : row.completed))
         IN  IF totalMilestones = 0 \/ completedMilestones = 0 THEN "invoice"
             ELSE IF completedMilestones = totalMilestones THEN "completed"
             ELSE "partially_paid"
    ELSE "invoice"

StatusFromFields(f) ==
    IF f.paymentType = "full"
    THEN (IF f.fullCompleted THEN "completed" ELSE "invoice")
    ELSE IF f.paymentType = "staggered"
    THEN LET c == CountMilestoneRows(f.rows, 0, 0)
             totalMilestones == c[1]
             completedMilestones == c[2]
         IN  IF totalMilestones = 0 \/ completedMilestones = 0 THEN "invoice"
             ELSE IF completedMilestones = totalMilestones THEN "completed"
             ELSE "partially_paid"
    ELSE "invoice"

autoUpdateProjectStatus(f) ==
    IF f.status \notin InvoiceStages THEN f
    ELSE [f EXCEPT !.status = StatusFromFields(f)]

\* updatePaymentDetails: visibility toggles, then autoUpdateProjectStatus
updatePaymentDetails(f) == autoUpdateProjectStatus(f)

RECURSIVE RowsOf(_)
RowsOf(milestones) ==
    IF milestones = <<>> THEN <<>>
    ELSE LET m == Head(milestones)
         IN  <<Row(m.percentage, m.due_date, m.completed, m.mid)>>
             \o RowsOf(Tail(milestones))

\* paymentSchedule.milestones.forEach on a schedule without milestones
populateFormThrows(project) ==
    /\ project.payment_schedule.type = "staggered"
    /\ "milestones" \notin DOMAIN project.payment_schedule

populateForm(f, project) ==
    LET paymentSchedule == project.payment_schedule
        f1 == [f EXCEPT !.name = project.name,
                        !.status = IF project.status = "" THEN "inquiry"
                                   ELSE project.status,
                        !.total_amount = project.total_amount,
                        !.target_date = IF project.start_date # ""
                                        THEN project.start_date ELSE @]
        f2 == IF paymentSchedule.type = "null"
              THEN [f1 EXCEPT !.paymentType = "full"]
              ELSE IF paymentSchedule.type = "staggered"
              THEN [f1 EXCEPT !.paymentType = "staggered",
                              !.rows = RowsOf(paymentSchedule.milestones)]
              ELSE [f1 EXCEPT !.paymentType = "full",
                              !.fullDate = paymentSchedule.due_date,
                              !.fullCompleted = paymentSchedule.completed]
    IN  autoUpdateProjectStatus(updatePaymentDetails(f2))

\* the form can be used once the timer of openForEdit has run
Usable(f) == f.open /\ f.confirm = ""
PaymentVisible(f) == Usable(f) /\ f.status \in InvoiceStages
FullVisible(f) == PaymentVisible(f) /\ f.paymentType = "full"
StaggeredVisible(f) == PaymentVisible(f) /\ f.paymentType = "staggered"

\* ---- ProjectFormData ----------------------------------------------------
\* parsePercentage without the clamp to [0, 100]
parsePercentageUnclamped(value) == value

\* parsePercentage: 0 for an empty or non-numeric value, else the value
\* clamped to [0, 100]
parsePercentage(value) ==
    IF value = 0 THEN 0
    ELSE IF value < 0 THEN 0 ELSE IF value > 100 THEN 100 ELSE value

\* extractMilestoneFromRow followed by the filter of
\* buildStaggeredPaymentSchedule (milestone && milestone.percentage > 0)
RECURSIVE MilestonesOfRows(_)
MilestonesOfRows(rows) ==
    IF rows = <<>> THEN <<>>
    ELSE LET row == Head(rows)
             percentage == parsePercentage(row.percentage)
         IN  IF percentage <= 0 THEN MilestonesOfRows(Tail(rows))
             ELSE <<Milestone(percentage, row.due_date, row.completed, row.mid)>>
                  \o MilestonesOfRows(Tail(rows))

buildFullPaymentSchedule(f) == FullSchedule(f.fullDate, f.fullCompleted)

buildStaggeredPaymentSchedule(f) == StaggeredSchedule(MilestonesOfRows(f.rows))

getFormData(f) ==
    [name |-> f.name,
     status |-> IF f.status = "" THEN "inquiry" ELSE f.status,
     total_amount |-> IF f.status \in AmountStages THEN f.total_amount ELSE 0,
     start_date |-> IF f.status = "quotation" THEN f.target_date ELSE "",
     tasks |-> <<>>,
     payment_schedule |->
         IF f.status \notin InvoiceStages THEN NullSchedule
         ELSE IF f.paymentType = "full" THEN buildFullPaymentSchedule(f)
         ELSE IF f.paymentType = "staggered" THEN buildStaggeredPaymentSchedule(f)
         ELSE NullSchedule]

\* ---- transactions.js: processAllTransactions ----------------------------
DigitChars == <<"0", "1", "2", "3", "4", "5", "6", "7", "8", "9">>

RECURSIVE NumToString(_)
NumToString(n) ==
    IF n < 10 THEN DigitChars[n + 1]
    ELSE NumToString(n \div 10) \o DigitChars[(n % 10) + 1]

\* padStart with the padding left out
padStart2Unpadded(str) == str

padStart2(str) == IF Len(str) < 2 THEN "0" \o str ELSE str

startsWith(str, prefix) ==
    Len(str) >= Len(prefix) /\ SubSeq(str, 1, Len(prefix)) = prefix

\* a Date at the first of a month; NullDate is the absent viewedDate
MonthDate(y, m) == [y |-> y, m |-> m]
NullDate == MonthDate(0, 0)
TodayMonth == MonthDate(2025, 8)

\* new Date(year, monthIndex - 1, 1)
PreviousMonth(d) == IF d.m = 1 THEN MonthDate(d.y - 1, 12) ELSE MonthDate(d.y, d.m - 1)
\* new Date(year, monthIndex + 1, 1)
FollowingMonth(d) == IF d.m = 12 THEN MonthDate(d.y + 1, 1) ELSE MonthDate(d.y, d.m + 1)

MonthString(d) == NumToString(d.y) \o "-" \o padStart2(NumToString(d.m))

ZeroMonth == [cashIn |-> 0, cashOut |-> 0]

\* the allTransactions.forEach of processAllTransactions
RECURSIVE AccumulateTransactions(_, _, _, _)
AccumulateTransactions(txs, thisMonthString, lastMonthString, acc) ==
    IF txs = <<>> THEN acc
    ELSE LET data == Head(txs)
             bal == IF data.type = "income" THEN acc.balance + data.amount
                    ELSE IF data.type = "expense" THEN acc.balance - data.amount
                    ELSE acc.balance
             add(mo) == [cashIn |-> IF data.type = "income"
                                    THEN mo.cashIn + data.amount ELSE mo.cashIn,
                         cashOut |-> IF data.type = "expense"
                                     THEN mo.cashOut + data.amount ELSE mo.cashOut]
             acc1 == IF startsWith(data.date, thisMonthString)
                     THEN [acc EXCEPT !.thisMonth = add(acc.thisMonth)]
                     ELSE IF startsWith(data.date, lastMonthString)
                     THEN [acc EXCEPT !.lastMonth = add(acc.lastMonth)]
                     ELSE acc
         IN  AccumulateTransactions(Tail(txs), thisMonthString, lastMonthString,
                                    [acc1 EXCEPT !.balance = bal])

\* ---- transactions.js: loadProjectData -----------------------------------
\* the ids of the rows of a table, in ascending order
RECURSIVE IdsOf(_)
IdsOf(ids) ==
    IF ids = {} THEN <<>>
    ELSE LET id == CHOOSE i \in ids : \A j \in ids : i <= j
         IN  <<id>> \o IdsOf(ids \ {id})

\* the entry loadProjectData pushes onto projectData.quotations
QuotationEntry(id, project, status, target_date) ==
    [id |-> id, project_id |-> id, name |-> project.name,
     amount |-> project.total_amount, status |-> status,
     target_date |-> target_date, created_at |-> project.created_at]

\* the entry loadProjectData pushes onto projectData.invoices;
\* milestone_index is 0 for a full schedule, index + 1 for a milestone
InvoiceEntry(id, project, name, amount, due_date, is_paid, milestone_index) ==
    [id |-> <<id, milestone_index>>, project_id |-> id, name |-> name,
     amount |-> amount, due_date |-> due_date, is_paid |-> is_paid,
     status |-> "invoice", project |-> project,
     milestone_index |-> milestone_index]

\* schedule.milestones.forEach of loadProjectData, from index (1-based) on
RECURSIVE MilestoneInvoices(_, _, _)
MilestoneInvoices(id, project, index) ==
    LET milestones == project.payment_schedule.milestones
    IN  IF index > Len(milestones) THEN <<>>
        ELSE LET milestone == milestones[index]
                 milestoneAmount ==
                     (project.total_amount * milestone.percentage) \div 100
             IN  <<InvoiceEntry(id, project,
                       project.name \o " - Milestone " \o NumToString(index),
                       milestoneAmount, milestone.due_date, milestone.completed,
                       index)>>
                 \o MilestoneInvoices(id, project, index + 1)

\* projects.forEach of loadProjectData over the rows ids of the table
RECURSIVE loadProjectData(_, _)
loadProjectData(projects, ids) ==
    IF ids = <<>> THEN [quotations |-> <<>>, invoices |-> <<>>]
    ELSE LET id == Head(ids)
             project == projects[id]
             schedule == project.payment_schedule
             rest == loadProjectData(projects, Tail(ids))
             invoices ==
                 IF project.status \in InvoiceStages /\ schedule.type = "full"
                 THEN <<InvoiceEntry(id, project, project.name,
                            project.total_amount, schedule.due_date,
                            schedule.completed, 0)>>
                 ELSE IF project.status \in InvoiceStages
                         /\ schedule.type = "staggered"
                         /\ "milestones" \in DOMAIN schedule
                 THEN MilestoneInvoices(id, project, 1)
                 ELSE <<>>
             quotations ==
                 IF project.status = "quotation"
                 THEN <<QuotationEntry(id, project, "quotation", project.start_date)>>
                 ELSE IF project.status \in InvoiceStages
                 THEN <<QuotationEntry(id, project, "converted_quotation",
                            IF project.start_date # "" THEN project.start_date
                            ELSE IF schedule.due_date # "" THEN schedule.due_date
                            ELSE project.created_at)>>
                 ELSE <<>>
         IN  [quotations |-> quotations \o rest.quotations,
              invoices |-> invoices \o rest.invoices]

\* projectData as the refetch builds it from the rows of the table projects
ProjectDataOf(projects) == loadProjectData(projects, IdsOf(DOMAIN projects))

\* ---- transactions.js: the project passes of processAllTransactions ------
ZeroInvoices ==
    [totalInvoice |-> 0, paidInvoiceAmount |-> 0, lastMonthPayable |-> 0,
     overallTotalPayable |-> 0, countedProjectsForTotalInvoice |-> {}]

\* AccumulateInvoices with the project total added for every invoice due
\* in the month, without the set of counted projects
RECURSIVE AccumulateInvoicesPerInvoice(_, _, _, _)
AccumulateInvoicesPerInvoice(invoices, thisMonthString, lastMonthString, acc) ==
    IF invoices = <<>> THEN acc
    ELSE LET invoice == Head(invoices)
             acc2 ==
                 IF startsWith(invoice.due_date, thisMonthString)
                 THEN [acc EXCEPT
                          !.totalInvoice = @ + invoice.project.total_amount,
                          !.paidInvoiceAmount =
                              IF invoice.is_paid THEN @ + invoice.amount ELSE @]
                 ELSE IF startsWith(invoice.due_date, lastMonthString)
                 THEN [acc EXCEPT !.lastMonthPayable = @ + invoice.amount]
                 ELSE acc
         IN  AccumulateInvoicesPerInvoice(Tail(invoices), thisMonthString,
                                          lastMonthString, acc2)

\* projectData.invoices.forEach of processAllTransactions
RECURSIVE AccumulateInvoices(_, _, _, _)
AccumulateInvoices(invoices, thisMonthString, lastMonthString, acc) ==
    IF invoices = <<>> THEN acc
    ELSE LET invoice == Head(invoices)
             acc1 == IF ~invoice.is_paid
                     THEN [acc EXCEPT !.overallTotalPayable = @ + invoice.amount]
                     ELSE acc
             counted == invoice.project_id \in acc.countedProjectsForTotalInvoice
             acc2 ==
                 IF startsWith(invoice.due_date, thisMonthString)
                 THEN [acc1 EXCEPT
                          !.totalInvoice =
                              IF counted THEN @ ELSE @ + invoice.project.total_amount,
                          !.countedProjectsForTotalInvoice =
                              @ \cup {invoice.project_id},
                          !.paidInvoiceAmount =
                              IF invoice.is_paid THEN @ + invoice.amount ELSE @]
                 ELSE IF startsWith(invoice.due_date, lastMonthString)
                 THEN [acc1 EXCEPT !.lastMonthPayable = @ + invoice.amount]
                 ELSE acc1
         IN  AccumulateInvoices(Tail(invoices), thisMonthString, lastMonthString, acc2)

\* new Date(dateString).getFullYear() and getMonth() + 1, for a date string
\* YYYY-MM-DD read in a time zone at or ahead of UTC
MonthNumbers == <<"01", "02", "03", "04", "05", "06",
                  "07", "08", "09", "10", "11", "12">>
DigitOf(c) == CHOOSE k \in 0..9 : DigitChars[k + 1] = c
getFullYear(dateString) ==
    1000 * DigitOf(SubSeq(dateString, 1, 1)) + 100 * DigitOf(SubSeq(dateString, 2, 2))
    + 10 * DigitOf(SubSeq(dateString, 3, 3)) + DigitOf(SubSeq(dateString, 4, 4))
getMonth(dateString) ==
    CHOOSE m \in 1..12 : MonthNumbers[m] = SubSeq(dateString, 6, 7)

ZeroQuotations ==
    [thisMonth |-> [quotation |-> 0, quotationCount |-> 0],
     lastMonth |-> [quotation |-> 0, quotationCount |-> 0],
     projectsThisMonth |-> {}, projectsLastMonth |-> {}]

\* projectData.quotations.forEach of processAllTransactions
RECURSIVE AccumulateQuotations(_, _, _, _)
AccumulateQuotations(quotations, now, lastMonthDate, acc) ==
    IF quotations = <<>> THEN acc
    ELSE LET project == Head(quotations)
             actualProjectId == project.project_id
             projectDate == IF project.target_date # "" THEN project.target_date
                            ELSE project.created_at
             isThisMonth == getFullYear(projectDate) = now.y
                            /\ getMonth(projectDate) = now.m
             isLastMonth == getFullYear(projectDate) = lastMonthDate.y
                            /\ getMonth(projectDate) = lastMonthDate.m
             acc1 ==
                 IF isThisMonth /\ actualProjectId \notin acc.projectsThisMonth
                 THEN [acc EXCEPT
                          !.thisMonth.quotation = @ + project.amount,
                          !.thisMonth.quotationCount = @ + 1,
                          !.projectsThisMonth = @ \cup {actualProjectId}]
                 ELSE IF isLastMonth /\ actualProjectId \notin acc.projectsLastMonth
                 THEN [acc EXCEPT
                          !.lastMonth.quotation = @ + project.amount,
                          !.lastMonth.quotationCount = @ + 1,
                          !.projectsLastMonth = @ \cup {actualProjectId}]
                 ELSE acc
         IN  AccumulateQuotations(Tail(quotations), now, lastMonthDate, acc1)

\* Number.prototype.toFixed(0) of n / d for n >= 0, d > 0
toFixed0(n, d) == (2 * n + d) \div (2 * d)

Abs(n) == IF n < 0 THEN 0 - n ELSE n

\* updateComparisonDisplay: what the element shows.  percentageChange is
\* kept as the fraction numerator / denominator.
updateComparisonDisplay(currentValue, previousValue, invertColors, isQuantity) ==
    LET diff == currentValue - previousValue
        percentageChange ==
            IF previousValue > 0 THEN <<diff * 100, previousValue>>
            ELSE IF currentValue > 0 THEN <<100, 1>>
            ELSE <<0, 1>>
        isPositive == IF invertColors THEN diff < 0 ELSE diff > 0
        colorClass == IF diff = 0 THEN "text-gray-500"
                      ELSE IF isPositive THEN "text-green-600"
                      ELSE "text-red-600"
    IN  IF currentValue = 0 /\ previousValue = 0
        THEN [text |-> "-", value |-> 0, colorClass |-> "text-gray-500"]
        ELSE IF isQuantity
        THEN [text |-> "Quotes", value |-> currentValue, colorClass |-> colorClass]
        ELSE [text |-> "%",
              value |-> toFixed0(Abs(percentageChange[1]), percentageChange[2]),
              colorClass |-> colorClass]

\* updatePayableRateDisplay with the test made on the paid amount
updatePayableRateDisplayByPaid(paidAmount, totalAmount) ==
    IF paidAmount = 0 \/ totalAmount = 0
    THEN [text |-> "No invoices this month", rate |-> 0, colorClass |-> ""]
    ELSE [text |-> "% of invoices paid",
          rate |-> toFixed0(paidAmount * 100, totalAmount),
          colorClass |-> IF paidAmount * 100 >= 50 * totalAmount
                         THEN "text-green-600" ELSE "text-red-600"]

\* updatePayableRateDisplay: what #payableComparison shows; rate is the
\* number rate.toFixed(0) prints
updatePayableRateDisplay(paidAmount, totalAmount) ==
    IF totalAmount = 0
    THEN [text |-> "No invoices this month", rate |-> 0, colorClass |-> ""]
    ELSE [text |-> "% of invoices paid",
          rate |-> toFixed0(paidAmount * 100, totalAmount),
          colorClass |-> IF paidAmount * 100 >= 50 * totalAmount
                         THEN "text-green-600" ELSE "text-red-600"]

\* The result of processAllTransactions.  thisMonth and lastMonth hold the
\* figures of the transaction pass; the figures of the invoice pass and of
\* the quotation pass are kept under invoices and quotations; the three
\* comparison elements are what updateMonthlySummaryDisplays writes.
updateMonthlySummaryDisplays(now, acc, inv, quo) ==
    [now |-> now, balance |-> acc.balance,
     thisMonth |-> acc.thisMonth, lastMonth |-> acc.lastMonth,
     invoices |-> [totalInvoice |-> inv.totalInvoice,
                   paidInvoiceAmount |-> inv.paidInvoiceAmount,
                   lastMonthPayable |-> inv.lastMonthPayable,
                   overallTotalPayable |-> inv.overallTotalPayable],
     quotations |-> [thisMonth |-> quo.thisMonth, lastMonth |-> quo.lastMonth],
     quotationComparison |->
         updateComparisonDisplay(quo.thisMonth.quotationCount,
             quo.lastMonth.quotationCount, FALSE, TRUE),
     payableComparison |->
         updatePayableRateDisplay(inv.paidInvoiceAmount, inv.totalInvoice),
     cashInComparison |->
         updateComparisonDisplay(acc.thisMonth.cashIn,
             acc.lastMonth.cashIn, FALSE, FALSE),
     cashOutComparison |->
         updateComparisonDisplay(acc.thisMonth.cashOut,
             acc.lastMonth.cashOut, TRUE, FALSE)]

\* the three passes of processAllTransactions for the month of now
ProcessMonth(transactions, projectData, now, lastMonthDate, thisMonthString, lastMonthString) ==
    updateMonthlySummaryDisplays(now,
        AccumulateTransactions(transactions, thisMonthString, lastMonthString,
            [now |-> now, balance |-> 0,
             thisMonth |-> ZeroMonth, lastMonth |-> ZeroMonth]),
        AccumulateInvoices(projectData.invoices, thisMonthString,
            lastMonthString, ZeroInvoices),
        AccumulateQuotations(projectData.quotations, now, lastMonthDate,
            ZeroQuotations))

ProcessFrom(transactions, projectData, now, lastMonthDate) ==
    ProcessMonth(transactions, projectData, now, lastMonthDate,
                 MonthString(now), MonthString(lastMonthDate))

processAllTransactions(transactions, projectData, viewedDate) ==
    IF viewedDate = NullDate
    THEN ProcessFrom(transactions, projectData, TodayMonth, PreviousMonth(TodayMonth))
    ELSE ProcessFrom(transactions, projectData, viewedDate, PreviousMonth(viewedDate))

\* ---- transactions.js: store access --------------------------------------
Tx(id, type, title, description, amount, date, src) ==
    [id |-> id, type |-> type, title |-> title, description |-> description,
     amount |-> amount, date |-> date, src |-> src, born |-> 0]

NoTx == Tx(0, "", "", "", 0, "", <<0, 0>>)

\* The handlers below thread a record st through their awaits:
\*   db, dbP        the store's transactions and projects
\*   cache, projCache, agg   what refetchTransactionData last produced
\*   viewed         getCurrentCalendarDate()
\*   alerts         the alert() calls so far
\*   eng, cb        history: the income operations of the engine / callback
\*   success        the callback's return value
\*   born           history: the number of the running save

refetchTransactionData(st, viewedDate) ==
    [st EXCEPT !.cache = st.db, !.projCache = st.dbP,
               !.agg = processAllTransactions(st.db, ProjectDataOf(st.dbP),
                                              viewedDate)]

\* saveEntry(entryData) with entryId = null; ok: the store accepts the insert
saveEntry(st, entryData, ok) ==
    IF ok
    THEN refetchTransactionData(
             [st EXCEPT !.db = Append(@, [entryData EXCEPT !.id = FreshId(st.db),
                                                      !.born = st.born])],
             st.viewed)
    ELSE [st EXCEPT !.alerts = Append(@, "Failed to save entry")]

\* deleteTransaction(transactionId); ok: the store accepts the delete
deleteTransaction(st, transactionId, ok) ==
    IF ok
    THEN refetchTransactionData(
             [st EXCEPT !.db = SelectSeq(@, LAMBDA r : r.id # transactionId)],
             st.viewed)
    ELSE [st EXCEPT !.alerts = Append(@, "Failed to delete transaction")]

\* ApiClient.updateProject; ok: the store accepts the update
updateProject(st, projectId, projectData, ok) ==
    IF ok
    THEN [st EXCEPT !.dbP[projectId] =
              [name |-> projectData.name, status |-> projectData.status,
               total_amount |-> projectData.total_amount,
               payment_schedule |-> projectData.payment_schedule,
               start_date |-> projectData.start_date,
               tasks |-> projectData.tasks,
               created_at |-> st.dbP[projectId].created_at],
              !.success = TRUE]
    ELSE [st EXCEPT !.success = FALSE]

\* Array.prototype.find over the indexes that satisfy the test: the first
\* of them, 0 if there is none
FindFirst(matching) ==
    IF matching = {} THEN 0
    ELSE CHOOSE i \in matching : \A j \in matching : i <= j

Op(kind, slot, mid, found, ok, rec) ==
    [kind |-> kind, slot |-> slot, mid |-> mid, found |-> found, ok |-> ok,
     rec |-> rec]

\* ---- ProjectFormPayments ------------------------------------------------
UndefinedMilestone == Milestone(0, "", FALSE, 0)

MilestoneAt(schedule, index) ==
    IF index <= Len(schedule.milestones) THEN schedule.milestones[index]
    ELSE UndefinedMilestone

analyzeMilestoneStatusChange(newMilestone, oldMilestone) ==
    LET newCompleted == newMilestone.completed
        oldCompleted == oldMilestone.completed
    IN  IF newCompleted /\ ~oldCompleted THEN "NEWLY_PAID"
        ELSE IF ~newCompleted /\ oldCompleted THEN "UNPAID"
        ELSE "NO_CHANGE"

MilestoneTitle(projectName) == "Milestone payment from " \o projectName

MilestoneDescription(projectName, milestoneNumber) ==
    "Milestone payment for " \o projectName
        \o " (Milestone " \o NumToString(milestoneNumber) \o ")"

FullTitle(projectName) == "Project Payment: " \o projectName

\* milestoneIndex is 1-based here (index + 1 of the source)
createMilestoneIncome(st, p, projectData, milestone, milestoneIndex, ok) ==
    LET milestoneAmount == (projectData.total_amount * milestone.percentage) \div 100
        incomeData ==
            Tx(FreshId(st.db), "income", MilestoneTitle(projectData.name),
               MilestoneDescription(projectData.name, milestoneIndex),
               milestoneAmount,
               IF milestone.due_date = "" THEN TODAY ELSE milestone.due_date,
               <<p, milestone.mid>>)
        st1 == saveEntry(st, incomeData, ok)
    IN  [st1 EXCEPT !.eng = Append(@, Op("create", milestoneIndex, milestone.mid,
                                         FALSE, ok, incomeData))]

createFullPaymentIncome(st, p, projectData, paymentSchedule, ok) ==
    LET incomeData ==
            Tx(FreshId(st.db), "income", FullTitle(projectData.name),
               "Full payment from contact", projectData.total_amount,
               IF paymentSchedule.due_date = "" THEN TODAY
               ELSE paymentSchedule.due_date,
               <<p, 0>>)
        st1 == saveEntry(st, incomeData, ok)
    IN  [st1 EXCEPT !.eng = Append(@, Op("create", 0, 0, FALSE, ok, incomeData))]

removeMilestoneIncome(st, projectName, milestoneNumber, mid, ok) ==
    LET allTx == st.cache
        targetTitle == MilestoneTitle(projectName)
        targetDescription == MilestoneDescription(projectName, milestoneNumber)
        k == FindFirst({i \in 1..Len(allTx) :
                 allTx[i].type = "income"
                 /\ (allTx[i].title = targetTitle
                     \/ allTx[i].description = targetDescription)})
    IN  IF k # 0
        THEN [deleteTransaction(st, allTx[k].id, ok) EXCEPT
                 !.eng = Append(@, Op("remove", milestoneNumber, mid, TRUE, ok, allTx[k]))]
        ELSE [st EXCEPT
                 !.eng = Append(@, Op("remove", milestoneNumber, mid, FALSE, TRUE, NoTx))]

\* removeFullPaymentIncome with the missing record reported to the user
removeFullPaymentIncomeAlerting(st, projectName, ok) ==
    LET allTx == st.cache
        targetTitle == FullTitle(projectName)
        k == FindFirst({i \in 1..Len(allTx) :
                 allTx[i].type = "income" /\ allTx[i].title = targetTitle})
    IN  IF k # 0
        THEN [deleteTransaction(st, allTx[k].id, ok) EXCEPT
                 !.eng = Append(@, Op("remove", 0, 0, TRUE, ok, allTx[k]))]
        ELSE [st EXCEPT !.eng = Append(@, Op("remove", 0, 0, FALSE, TRUE, NoTx)),
                        !.alerts = Append(@, "Failed to delete transaction")]

removeFullPaymentIncome(st, projectName, ok) ==
    LET allTx == st.cache
        targetTitle == FullTitle(projectName)
        k == FindFirst({i \in 1..Len(allTx) :
                 allTx[i].type = "income" /\ allTx[i].title = targetTitle})
    IN  IF k # 0
        THEN [deleteTransaction(st, allTx[k].id, ok) EXCEPT
                 !.eng = Append(@, Op("remove", 0, 0, TRUE, ok, allTx[k]))]
        ELSE [st EXCEPT !.eng = Append(@, Op("remove", 0, 0, FALSE, TRUE, NoTx))]

\* env: the answers of the store during one save
\*   engFail / cbFail   slots (0 = full, i = milestone i) whose income
\*                      operation of the engine / of the callback is rejected
\*   pre                the callback's reads (existing project, user) succeed
\*   upd                the project update is accepted
\* At most one store operation is rejected during one save.
NoFailure == [engFail |-> {}, cbFail |-> {}, pre |-> TRUE, upd |-> TRUE]

Envs == {NoFailure, [NoFailure EXCEPT !.pre = FALSE], [NoFailure EXCEPT !.upd = FALSE]}
        \cup {[NoFailure EXCEPT !.engFail = {k}] : k \in 0..MaxRows}
        \cup {[NoFailure EXCEPT !.cbFail = {k}] : k \in 0..MaxRows}

\* the for loop of handleStaggeredPaymentChanges, from index (1-based) on
RECURSIVE handleStaggeredPaymentChanges(_, _, _, _, _, _, _)
handleStaggeredPaymentChanges(st, p, projectData, newSchedule, oldSchedule, index, env) ==
    IF index > Len(newSchedule.milestones) THEN st
    ELSE LET newMilestone == newSchedule.milestones[index]
             oldMilestone == MilestoneAt(oldSchedule, index)
             statusChange == analyzeMilestoneStatusChange(newMilestone, oldMilestone)
             st1 == IF statusChange = "NEWLY_PAID"
                    THEN createMilestoneIncome(st, p, projectData, newMilestone,
                                               index, index \notin env.engFail)
                    ELSE IF statusChange = "UNPAID"
                    THEN removeMilestoneIncome(st, projectData.name, index,
                                               newMilestone.mid, index \notin env.engFail)
                    ELSE st
         IN  handleStaggeredPaymentChanges(st1, p, projectData, newSchedule,
                                           oldSchedule, index + 1, env)

handleFullPaymentChanges(st, p, projectData, newSchedule, oldSchedule, env) ==
    LET wasCompleted == oldSchedule.completed
        isCompleted == newSchedule.completed
    IN  IF isCompleted /\ ~wasCompleted
        THEN createFullPaymentIncome(st, p, projectData, newSchedule, 0 \notin env.engFail)
        ELSE IF ~isCompleted /\ wasCompleted
        THEN removeFullPaymentIncome(st, projectData.name, 0 \notin env.engFail)
        ELSE st

\* handlePaymentStatusChanges with an aggregate full-payment record added
\* once every milestone of a staggered schedule is paid
handlePaymentStatusChangesAggregating(st, p, projectData, env) ==
    LET originalProject == st.projCache[p]
        newSchedule == projectData.payment_schedule
        oldSchedule == originalProject.payment_schedule
        st1 == handleStaggeredPaymentChanges(st, p, projectData, newSchedule,
                                             oldSchedule, 1, env)
    IN  IF newSchedule.type = "staggered" /\ oldSchedule.type = "null" THEN st
        ELSE IF newSchedule.type = "staggered" /\ oldSchedule.type = "staggered"
        THEN IF newSchedule.milestones # <<>>
                /\ \A i \in 1..Len(newSchedule.milestones) :
                       newSchedule.milestones[i].completed
             THEN createFullPaymentIncome(st1, p, projectData, newSchedule,
                                          0 \notin env.engFail)
             ELSE st1
        ELSE IF newSchedule.type = "full"
        THEN handleFullPaymentChanges(st, p, projectData, newSchedule, oldSchedule, env)
        ELSE st

\* originalProject is read from window.allProjects; a null oldSchedule makes
\* the first test throw when the new schedule is staggered, which the
\* try/catch turns into "nothing done"
handlePaymentStatusChanges(st, p, projectData, env) ==
    LET originalProject == st.projCache[p]
        newSchedule == projectData.payment_schedule
        oldSchedule == originalProject.payment_schedule
    IN  IF newSchedule.type = "staggered" /\ oldSchedule.type = "null" THEN st
        ELSE IF newSchedule.type = "staggered" /\ oldSchedule.type = "staggered"
        THEN handleStaggeredPaymentChanges(st, p, projectData, newSchedule,
                                           oldSchedule, 1, env)
        ELSE IF newSchedule.type = "full"
        THEN handleFullPaymentChanges(st, p, projectData, newSchedule, oldSchedule, env)
        ELSE st

\* ---- the save callback of sidebar-nav.js --------------------------------
SidebarSaveCallback(st, p, projectData, env) ==
    LET st1 == updateProject([st EXCEPT !.updAttempted = TRUE], p, projectData, env.upd)
    IN  IF st1.success THEN refetchTransactionData(st1, NullDate) ELSE st1

\* ---- the save callback of contact-projects.js ---------------------------
\* a direct insert into the store, without refetch
ContactInsert(st, rec, slot, mid, ok) ==
    [st EXCEPT !.db = IF ok THEN Append(@, [rec EXCEPT !.born = st.born]) ELSE @,
               !.cb = Append(@, Op("create", slot, mid, FALSE, ok, rec)),
               !.returned = ~ok]

\* the for...of loop over updatedMilestones, from index (1-based) on
RECURSIVE ContactMilestoneLoop(_, _, _, _, _, _, _)
ContactMilestoneLoop(st, p, existingProject, existingMilestones, updatedMilestones, index, env) ==
    IF st.returned \/ index > Len(updatedMilestones) THEN st
    ELSE LET updatedMilestone == updatedMilestones[index]
             isNewlyPaid == updatedMilestone.completed
                 /\ (index > Len(existingMilestones)
                     \/ ~existingMilestones[index].completed)
             milestoneAmount ==
                 (existingProject.total_amount * updatedMilestone.percentage) \div 100
             newTransaction ==
                 Tx(FreshId(st.db), "income", MilestoneTitle(existingProject.name),
                    MilestoneDescription(existingProject.name, index),
                    milestoneAmount, TODAY, <<p, updatedMilestone.mid>>)
             st1 == IF isNewlyPaid
                    THEN ContactInsert(st, newTransaction, index, updatedMilestone.mid,
                                       index \notin env.cbFail)
                    ELSE st
         IN  ContactMilestoneLoop(st1, p, existingProject, existingMilestones,
                                  updatedMilestones, index + 1, env)

ContactSaveCallback(st, p, projectData, env) ==
    IF ~env.pre THEN [st EXCEPT !.success = FALSE]
    ELSE
    LET existingProject == st.dbP[p]
        newSchedule == projectData.payment_schedule
        isPaidNow == newSchedule.completed
        wasPaidBefore == existingProject.payment_schedule.completed
        newTransaction ==
            Tx(FreshId(st.db), "income", "Payment from " \o existingProject.name,
               "Project payment for " \o existingProject.name,
               projectData.total_amount, TODAY, <<p, 0>>)
        st1 == IF newSchedule.type = "full" /\ isPaidNow /\ ~wasPaidBefore
               THEN ContactInsert(st, newTransaction, 0, 0, 0 \notin env.cbFail)
               ELSE st
        st2 == IF newSchedule.type = "staggered"
                  /\ existingProject.payment_schedule.type = "staggered"
               THEN ContactMilestoneLoop(st1, p, existingProject,
                        existingProject.payment_schedule.milestones,
                        newSchedule.milestones, 1, env)
               ELSE st1
        st3 == updateProject([st2 EXCEPT !.updAttempted = TRUE], p, projectData, env.upd)
    IN  IF st2.returned THEN [st2 EXCEPT !.success = FALSE]
        ELSE IF st3.success THEN st3
        ELSE [st3 EXCEPT !.alerts = Append(@, "Failed to save project.")]

\* ---- strings ------------------------------------------------------------
\* String.prototype.includes
includes(str, sub) ==
    \E i \in 1..(Len(str) - Len(sub) + 1) : SubSeq(str, i, i + Len(sub) - 1) = sub

\* String.prototype.replace with a string pattern: the first occurrence
replace(str, sub, by) ==
    IF ~includes(str, sub) THEN str
    ELSE LET i == CHOOSE k \in 1..(Len(str) - Len(sub) + 1) :
                      /\ SubSeq(str, k, k + Len(sub) - 1) = sub
                      /\ \A j \in 1..(k - 1) : SubSeq(str, j, j + Len(sub) - 1) # sub
         IN  SubSeq(str, 1, i - 1) \o by \o SubSeq(str, i + Len(sub), Len(str))

UpperCase == <<"A", "B", "C", "D", "E", "F", "G", "H", "I", "J", "K", "L", "M",
               "N", "O", "P", "Q", "R", "S", "T", "U", "V", "W", "X", "Y", "Z">>
LowerCase == <<"a", "b", "c", "d", "e", "f", "g", "h", "i", "j", "k", "l", "m",
               "n", "o", "p", "q", "r", "s", "t", "u", "v", "w", "x", "y", "z">>

\* toLowerCase() followed by replace(/\s+/g, '_'), from position i on;
\* inSpace: the character before position i was white space
RECURSIVE NormalizeFrom(_, _, _)
NormalizeFrom(str, i, inSpace) ==
    IF i > Len(str) THEN ""
    ELSE LET c == SubSeq(str, i, i)
         IN  IF c = " "
             THEN (IF inSpace THEN "" ELSE "_") \o NormalizeFrom(str, i + 1, TRUE)
             ELSE (IF \E k \in 1..26 : UpperCase[k] = c
                   THEN LowerCase[CHOOSE k \in 1..26 : UpperCase[k] = c]
                   ELSE c)
                  \o NormalizeFrom(str, i + 1, FALSE)

\* ---- transactions.js: getTransactionsForDate ----------------------------
shouldShowAsPayable(project) ==
    IF project.status \notin {"invoice", "partially_paid"} THEN FALSE
    ELSE IF project.payment_schedule.type = "full"
    THEN ~project.payment_schedule.completed
    ELSE TRUE

\* An entry of a day list.  The three sources give objects of different
\* shapes; a property an object does not have is "" (0 for amount), as
\* every reader of the list treats undefined.  source and ref are history:
\* where the entry came from.
DayEntry(source, ref, type, title, name, description, amount, date, due_date, is_paid, projectName, project_name) ==
    [source |-> source, ref |-> ref, type |-> type, title |-> title,
     name |-> name, description |-> description, amount |-> amount,
     date |-> date, due_date |-> due_date, is_paid |-> is_paid,
     projectName |-> projectName, project_name |-> project_name]

TransactionEntry(t) ==
    DayEntry("transaction", <<t.id, 0>>, t.type, t.title, "", t.description,
             t.amount, t.date, "", FALSE, "", "")

PayableEntry(invoice) ==
    DayEntry("invoice", invoice.id, "", "", invoice.name, "", invoice.amount,
             "", invoice.due_date, invoice.is_paid, "", "")

RECURSIVE TransactionEntries(_)
TransactionEntries(seq) ==
    IF seq = <<>> THEN <<>>
    ELSE <<TransactionEntry(Head(seq))>> \o TransactionEntries(Tail(seq))

RECURSIVE PayableEntries(_)
PayableEntries(seq) ==
    IF seq = <<>> THEN <<>>
    ELSE <<PayableEntry(Head(seq))>> \o PayableEntries(Tail(seq))

getTransactionsForDate(projectData, transactions, dateString) ==
    LET projectInvoices ==
            SelectSeq(projectData.invoices, LAMBDA invoice :
                invoice.due_date = dateString /\ shouldShowAsPayable(invoice.project))
        paidInvoiceTitles ==
            {projectData.invoices[i].name :
                 i \in {k \in 1..Len(projectData.invoices) :
                            projectData.invoices[k].is_paid}}
        filteredTransactions ==
            SelectSeq(transactions, LAMBDA transaction :
                transaction.date = dateString
                /\ transaction.title \notin paidInvoiceTitles)
    IN  TransactionEntries(filteredTransactions)
        \o PayableEntries(projectInvoices)

\* ---- project-manager.js -------------------------------------------------
\* the client_name column, the same for every project of the model
CLIENT == "Client"

\* String(n) of a template literal
NumberText(n) == IF n < 0 THEN "-" \o NumToString(0 - n) ELSE NumToString(n)

CalendarInvoice(id, project, amount, due_date, is_paid, index) ==
    [id |-> <<id, index>>, project_name |-> project.name, amount |-> amount,
     due_date |-> due_date, is_paid |-> is_paid]

\* schedule.milestones.forEach of getProjectCalendarItems, from index on
RECURSIVE CalendarMilestones(_, _, _)
CalendarMilestones(id, project, index) ==
    LET milestones == project.payment_schedule.milestones
    IN  IF index > Len(milestones) THEN <<>>
        ELSE LET milestone == milestones[index]
                 milestoneAmount ==
                     (project.total_amount * milestone.percentage) \div 100
             IN  <<CalendarInvoice(id, project, milestoneAmount,
                       milestone.due_date, milestone.completed, index)>>
                 \o CalendarMilestones(id, project, index + 1)

\* project.tasks.forEach of getProjectCalendarItems, from index on
RECURSIVE CalendarTasksOf(_, _, _)
CalendarTasksOf(id, project, index) ==
    IF index > Len(project.tasks) THEN <<>>
    ELSE LET task == project.tasks[index]
         IN  (IF task.due_date # ""
              THEN <<[id |-> <<id, index>>, project_name |-> project.name,
                      title |-> task.description, description |-> task.description,
                      due_date |-> task.due_date, completed |-> task.completed]>>
              ELSE <<>>)
             \o CalendarTasksOf(id, project, index + 1)

\* projects.forEach of getProjectCalendarItems over the row ids
RECURSIVE getProjectCalendarItems(_, _)
getProjectCalendarItems(projects, ids) ==
    IF ids = <<>> THEN [invoices |-> <<>>, tasks |-> <<>>]
    ELSE LET id == Head(ids)
             project == projects[id]
             schedule == project.payment_schedule
             rest == getProjectCalendarItems(projects, Tail(ids))
             invoices ==
                 IF project.status = "invoice" /\ schedule.type = "full"
                 THEN <<CalendarInvoice(id, project, project.total_amount,
                            schedule.due_date, schedule.completed, 0)>>
                 ELSE IF project.status = "invoice" /\ schedule.type = "staggered"
                         /\ "milestones" \in DOMAIN schedule
                 THEN CalendarMilestones(id, project, 1)
                 ELSE <<>>
         IN  [invoices |-> invoices \o rest.invoices,
              tasks |-> CalendarTasksOf(id, project, 1) \o rest.tasks]

\* window.projectCalendarData as the refetch builds it
ProjectCalendarDataOf(projects) ==
    getProjectCalendarItems(projects, IdsOf(DOMAIN projects))

\* projectData.invoices.forEach of getProjectItemsForDate
RECURSIVE InvoiceItemsForDate(_, _)
InvoiceItemsForDate(invoices, dateString) ==
    IF invoices = <<>> THEN <<>>
    ELSE LET invoice == Head(invoices)
             title == invoice.project_name \o " - " \o CLIENT
             description == "RM" \o NumberText(invoice.amount) \o ".00"
         IN  (IF invoice.due_date = dateString /\ ~invoice.is_paid
              THEN <<DayEntry("item", invoice.id, "invoice_due",
                         "Invoice Due: " \o title, "", description,
                         invoice.amount, "", "", FALSE, "", "")>>
              ELSE IF invoice.due_date = dateString /\ invoice.is_paid
              THEN <<DayEntry("item", invoice.id, "payment_received",
                         "Payment Received: " \o title, "", description,
                         invoice.amount, "", "", FALSE, "", "")>>
              ELSE <<>>)
             \o InvoiceItemsForDate(Tail(invoices), dateString)

\* projectData.tasks.forEach of getProjectItemsForDate
RECURSIVE TaskItemsForDate(_, _)
TaskItemsForDate(tasks, dateString) ==
    IF tasks = <<>> THEN <<>>
    ELSE LET task == Head(tasks)
         IN  (IF task.due_date = dateString
              THEN <<DayEntry("item", task.id, "task_due", "Task: " \o task.title,
                         "", task.project_name \o " - " \o CLIENT, 0, "", "",
                         FALSE, "", "")>>
              ELSE <<>>)
             \o TaskItemsForDate(Tail(tasks), dateString)

getProjectItemsForDate(projectData, dateString) ==
    InvoiceItemsForDate(projectData.invoices, dateString)
    \o TaskItemsForDate(projectData.tasks, dateString)

\* ---- modals.js: renderCurrentDayEntries ---------------------------------
\* project.tasks.forEach of renderCurrentDayEntries, from taskIndex on
RECURSIVE ProjectTasksForDate(_, _, _, _)
ProjectTasksForDate(id, project, taskIndex, dateString) ==
    IF taskIndex > Len(project.tasks) THEN <<>>
    ELSE LET task == project.tasks[taskIndex]
         IN  (IF task.due_date = dateString
              THEN <<DayEntry("task", <<id, taskIndex>>, "project_task", "", "",
                         task.description, 0, "", task.due_date, FALSE,
                         project.name, "")>>
              ELSE <<>>)
             \o ProjectTasksForDate(id, project, taskIndex + 1, dateString)

\* window.allProjects.forEach of renderCurrentDayEntries over the row ids
RECURSIVE calendarTasks(_, _, _)
calendarTasks(projects, ids, dateString) ==
    IF ids = <<>> THEN <<>>
    ELSE ProjectTasksForDate(Head(ids), projects[Head(ids)], 1, dateString)
         \o calendarTasks(projects, Tail(ids), dateString)

createEntryKey(entry, selectedDate) ==
    LET entryDate == IF entry.due_date # "" THEN entry.due_date
                     ELSE IF entry.date # "" THEN entry.date
                     ELSE selectedDate
        entryAmount == entry.amount
        untitled(str) == IF str = "" THEN "untitled" ELSE str
        taskDescription ==
            IF entry.type = "project_task" THEN untitled(entry.description)
            ELSE IF entry.type = "task_due"
            THEN (IF replace(entry.title, "Task: ", "") # ""
                  THEN replace(entry.title, "Task: ", "")
                  ELSE untitled(entry.description))
            ELSE IF entry.description # "" THEN entry.description
            ELSE untitled(replace(entry.title, "Task: ", ""))
        titleText == IF entry.title # "" THEN entry.title ELSE entry.name
        projectName ==
            IF includes(titleText, "Web Maintenance") THEN "Web Maintenance"
            ELSE IF entry.project_name # "" THEN entry.project_name
            ELSE entry.projectName
    IN  IF entry.type = "project_task" \/ entry.type = "task_due"
           \/ includes(entry.title, "Task:")
        THEN "task_" \o NormalizeFrom(taskDescription, 1, FALSE) \o "_" \o entryDate
        ELSE IF projectName # "" /\ entryAmount > 0
        THEN "project_entry_" \o projectName \o "_" \o entryDate
                 \o "_" \o NumberText(entryAmount)
        ELSE "fallback_" \o (IF titleText = "" THEN "no-title" ELSE titleText)
                 \o "_" \o NumberText(entryAmount)
                 \o "_" \o (IF entry.type = "" THEN "undefined" ELSE entry.type)

\* the forEach without the test of seenEntries
RECURSIVE DeduplicateKeepingAll(_, _, _)
DeduplicateKeepingAll(allEntries, selectedDate, seenEntries) ==
    IF allEntries = <<>> THEN <<>>
    ELSE <<Head(allEntries)>>
         \o DeduplicateKeepingAll(Tail(allEntries), selectedDate, seenEntries)

\* allEntries.forEach of renderCurrentDayEntries: deduplicatedEntries
RECURSIVE Deduplicate(_, _, _)
Deduplicate(allEntries, selectedDate, seenEntries) ==
    IF allEntries = <<>> THEN <<>>
    ELSE LET entry == Head(allEntries)
             entryKey == createEntryKey(entry, selectedDate)
         IN  IF entryKey \notin seenEntries
             THEN <<entry>> \o Deduplicate(Tail(allEntries), selectedDate,
                                           seenEntries \cup {entryKey})
             ELSE Deduplicate(Tail(allEntries), selectedDate, seenEntries)

\* The day modal after renderCurrentDayEntries(dateString): the selected
\* date, what getTransactionsForDate returned, the merged sources and the
\* listed entries.  projectData and window.projectCalendarData are rebuilt
\* by every refetch from the rows window.allProjects is set from.
renderCurrentDayEntries(transactions, projects, selectedDate, dateString) ==
    LET fromTransactions ==
            getTransactionsForDate(ProjectDataOf(projects), transactions, dateString)
        projectItems ==
            getProjectItemsForDate(ProjectCalendarDataOf(projects), dateString)
        unpaidProjectItems ==
            SelectSeq(projectItems, LAMBDA item :
                item.type # "invoice" \/ ~item.is_paid)
        allEntries ==
            calendarTasks(projects, IdsOf(DOMAIN projects), dateString)
            \o unpaidProjectItems \o fromTransactions
    IN  [currentSelectedDate |-> selectedDate,
         transactions |-> fromTransactions,
         allEntries |-> allEntries,
         entries |-> Deduplicate(allEntries, selectedDate, {})]

NoDayModal ==
    [currentSelectedDate |-> "", transactions |-> <<>>, allEntries |-> <<>>,
     entries |-> <<>>]

\* ---- monthly-goal.js ----------------------------------------------------
\* new Date().toISOString().slice(0, 7)
currentMonth == SubSeq(TODAY, 1, 7)

\* what parseFloat gives for the text of #goal-amount
NotANumber == [nan |-> TRUE, v |-> 0]
Number(v) == [nan |-> FALSE, v |-> v]

\* the forEach of fetchAndDisplayMonthlyGoal over getAllTransactions()
RECURSIVE currentProgress(_)
currentProgress(transactions) ==
    IF transactions = <<>> THEN 0
    ELSE (IF /\ Head(transactions).type = "income"
             /\ Head(transactions).date # ""
             /\ startsWith(Head(transactions).date, currentMonth)
          THEN Head(transactions).amount ELSE 0)
         + currentProgress(Tail(transactions))

\* Number.prototype.toFixed(0) of the fraction n / d (d > 0)
toFixed0Text(n, d) ==
    IF n < 0 THEN "-" \o NumToString(toFixed0(0 - n, d))
    ELSE NumToString(toFixed0(n, d))

\* Math.min(progressPercentage, 100) as the fraction n / d
progressShown(progress, goalAmount) ==
    IF goalAmount > 0
    THEN IF progress * 100 > 100 * goalAmount THEN [n |-> 100, d |-> 1]
         ELSE [n |-> progress * 100, d |-> goalAmount]
    ELSE [n |-> 0, d |-> 1]

\* fetchAndDisplayMonthlyGoal: data is the row of the current month, or null
\* when there is none or the select failed
fetchAndDisplayMonthlyGoal(row, selected, transactions) ==
    LET goalAmount == IF selected /\ row.exists THEN row.goal_amount ELSE 0
        shown == progressShown(currentProgress(transactions), goalAmount)
    IN  [row |-> row,
         goalTarget |-> goalAmount,
         progressText |-> toFixed0Text(shown.n, shown.d) \o "%",
         width |-> shown]

NoGoalRow == [exists |-> FALSE, goal_amount |-> 0]
NoGoal == [row |-> NoGoalRow, goalTarget |-> 0, progressText |-> "0%",
           width |-> [n |-> 0, d |-> 1]]

\* ---- history record of the last handler ---------------------------------
NoProject == [name |-> "", status |-> "", total_amount |-> 0,
              payment_schedule |-> NullSchedule, start_date |-> "",
              tasks |-> <<>>, created_at |-> ""]

Last(act) ==
    [act |-> act, blocked |-> FALSE, proj |-> 0, callback |-> "",
     pd |-> NoProject, orig |-> NoProject, stored |-> NoProject,
     txBefore |-> <<>>, eng |-> <<>>, cb |-> <<>>,
     updAttempted |-> FALSE, success |-> FALSE, alerts |-> <<>>,
     rejected |-> FALSE, threw |-> FALSE]

\* ---- initial state ------------------------------------------------------
\* The stored projects the model starts from, each with the income records
\* the store holds for it.  A project that was created already paid has no
\* income record (save() runs the reconciliation only when editing); one
\* that was marked paid by an edit on the calendar page has the record of
\* createFullPaymentIncome / createMilestoneIncome.
Project(status, schedule) ==
    [name |-> "A", status |-> status, total_amount |-> 1000,
     payment_schedule |-> schedule,
     start_date |-> IF status = "quotation" THEN QUOTED ELSE "",
     tasks |-> <<>>, created_at |-> CREATED]

PaidFullRecord ==
    Tx(1, "income", FullTitle("A"), "Full payment from contact", 1000, DUE1, <<1, 0>>)

PaidMilestoneRecord ==
    Tx(1, "income", MilestoneTitle("A"), MilestoneDescription("A", 2), 500,
       TODAY, <<1, 2>>)

InitialStores ==
    { [project |-> Project("invoice", FullSchedule(DUE1, FALSE)), tx |-> <<>>],
      [project |-> Project("completed", FullSchedule(DUE1, TRUE)),
       tx |-> <<PaidFullRecord>>],
      [project |-> Project("completed", FullSchedule(DUE1, TRUE)), tx |-> <<>>],
      [project |-> Project("invoice", StaggeredSchedule(
           <<Milestone(50, DUE1, FALSE, 1), Milestone(50, "", FALSE, 2)>>)),
       tx |-> <<>>],
      [project |-> Project("partially_paid", StaggeredSchedule(
           <<Milestone(50, DUE1, FALSE, 1), Milestone(50, "", TRUE, 2)>>)),
       tx |-> <<PaidMilestoneRecord>>],
      [project |-> Project("quotation", NullSchedule), tx |-> <<>>] }

BlankForm ==
    [open |-> FALSE, editingProjectId |-> 0, name |-> "", status |-> "inquiry",
     total_amount |-> 0, target_date |-> "", paymentType |-> "full",
     fullDate |-> "", fullCompleted |-> FALSE, rows |-> <<>>, confirm |-> ""]

Init ==
    /\ \E s \in InitialStores :
           /\ dbProjects = [p \in ProjectIds |-> s.project]
           /\ dbTransactions = s.tx
    /\ allTransactions = dbTransactions
    /\ allProjects = dbProjects
    /\ currentDate = MonthDate(2025, 8)
    /\ agg = processAllTransactions(dbTransactions, ProjectDataOf(dbProjects),
                                    currentDate)
    /\ form = BlankForm
    /\ onSaveCallback = "sidebar"
    /\ nextMid = 3
    /\ saves = 0
    /\ last = Last("idle")
    /\ dayModal = NoDayModal
    /\ pending = <<>>
    /\ monthlyGoal = NoGoal

\* ---- form handlers ------------------------------------------------------
FormOnly(f, act) ==
    /\ form' = f
    /\ last' = Last(act)
    /\ UNCHANGED <<dbProjects, dbTransactions, allTransactions, allProjects,
                   currentDate, agg, onSaveCallback, nextMid, saves,
                   dayModal, pending, monthlyGoal>>

\* openForEdit: populateForm, show (whose timer repeats the status update of
\* populateForm) and the 50 ms timer, pending in form.confirm
\* A stored schedule of type staggered without the property milestones makes
\* paymentSchedule.milestones.forEach throw; openForEdit has no try/catch, so
\* the modal is not shown and only editingProjectId is left changed.
OpenForEdit(p) ==
    /\ ~form.open
    /\ IF populateFormThrows(allProjects[p])
       THEN /\ form' = [form EXCEPT !.editingProjectId = p]
            /\ last' = [Last("openForEdit") EXCEPT !.threw = TRUE, !.proj = p]
            /\ UNCHANGED <<dbProjects, dbTransactions, allTransactions,
                           allProjects, currentDate, agg, onSaveCallback,
                           nextMid, saves, dayModal, pending, monthlyGoal>>
       ELSE FormOnly([populateForm(form, allProjects[p]) EXCEPT
                         !.open = TRUE, !.editingProjectId = p,
                         !.confirm = allProjects[p].status], "idle")

\* the setTimeout callback of openForEdit
StatusConfirm ==
    /\ form.confirm # ""
    /\ FormOnly([form EXCEPT !.status = form.confirm, !.confirm = ""], "idle")

CloseForm ==
    /\ Usable(form)
    /\ FormOnly([form EXCEPT !.open = FALSE], "idle")

handleStatusButtonClick(status) ==
    /\ Usable(form)
    /\ status \in manualStatuses
    /\ FormOnly([form EXCEPT !.status = status], "idle")

handlePaymentTypeChange(paymentType) ==
    /\ PaymentVisible(form)
    /\ paymentType # form.paymentType
    /\ FormOnly(autoUpdateProjectStatus(updatePaymentDetails(
                    [form EXCEPT !.paymentType = paymentType])), "auto")

\* handleFieldChange for #full-payment-completed
ToggleFullCompleted ==
    /\ FullVisible(form)
    /\ FormOnly(autoUpdateProjectStatus(
                    [form EXCEPT !.fullCompleted = ~@]), "auto")

\* handleFieldChange for .milestone-completed
ToggleMilestoneCompleted(i) ==
    /\ StaggeredVisible(form)
    /\ i \in 1..Len(form.rows)
    /\ FormOnly(autoUpdateProjectStatus(
                    [form EXCEPT !.rows[i].completed = ~@]), "auto")

\* handleFieldChange for .milestone-percentage
SetMilestonePercentage(i, value) ==
    /\ StaggeredVisible(form)
    /\ i \in 1..Len(form.rows)
    /\ value # form.rows[i].percentage
    /\ FormOnly(autoUpdateProjectStatus(
                    [form EXCEPT !.rows[i].percentage = value]), "auto")

handleAddMilestone ==
    /\ StaggeredVisible(form)
    /\ Len(form.rows) < MaxRows
    /\ nextMid <= MaxMid
    /\ form' = autoUpdateProjectStatus(
                   [form EXCEPT !.rows = Append(@, Row(0, "", FALSE, nextMid))])
    /\ nextMid' = nextMid + 1
    /\ last' = Last("auto")
    /\ UNCHANGED <<dbProjects, dbTransactions, allTransactions, allProjects,
                   currentDate, agg, onSaveCallback, saves, dayModal, pending,
                   monthlyGoal>>

\* the click handler of .remove-milestone-btn (addMilestoneRow)
RemoveMilestoneRow(i) ==
    /\ StaggeredVisible(form)
    /\ i \in 1..Len(form.rows)
    /\ FormOnly(autoUpdateProjectStatus(
                    [form EXCEPT !.rows = RemoveAt(@, i)]), "auto")

\* ---- ProjectFormModal.save ----------------------------------------------
SaveStart ==
    [db |-> dbTransactions, dbP |-> dbProjects, cache |-> allTransactions,
     projCache |-> allProjects, agg |-> agg, viewed |-> currentDate,
     alerts |-> <<>>, eng |-> <<>>, cb |-> <<>>, success |-> FALSE,
     returned |-> FALSE, updAttempted |-> FALSE, born |-> saves + 1]

\* the callback registered by the page the form was opened from
onSave(st, p, projectData, env) ==
    IF onSaveCallback = "contact"
    THEN ContactSaveCallback(st, p, projectData, env)
    ELSE SidebarSaveCallback(st, p, projectData, env)

\* if (success) { this.close(); refetchTransactionData(); }
SaveFinish(st) ==
    IF st.success THEN refetchTransactionData(st, NullDate) ELSE st

SaveResultOf(projectData, p, env) ==
    SaveFinish(onSave(IF p # 0 /\ projectData.payment_schedule.type # "null"
                      THEN handlePaymentStatusChanges(SaveStart, p, projectData, env)
                      ELSE SaveStart,
                      p, projectData, env))

\* what save leaves behind once the callback has answered
SaveCommit(st, projectData, p, env) ==
    /\ Len(st.db) <= MaxTx
    /\ dbProjects' = st.dbP
    /\ dbTransactions' = st.db
    /\ allTransactions' = st.cache
    /\ allProjects' = st.projCache
    /\ agg' = st.agg
    /\ form' = IF st.success THEN [form EXCEPT !.open = FALSE] ELSE form
    /\ last' = [Last("save") EXCEPT
                    !.proj = p, !.callback = onSaveCallback,
                    !.pd = projectData, !.orig = allProjects[p],
                    !.stored = dbProjects[p],
                    !.txBefore = dbTransactions,
                    !.eng = st.eng, !.cb = st.cb,
                    !.updAttempted = st.updAttempted,
                    !.success = st.success, !.alerts = st.alerts,
                    !.rejected =
                        \/ \E k \in 1..Len(st.eng) : ~st.eng[k].ok
                        \/ \E k \in 1..Len(st.cb) : ~st.cb[k].ok
                        \/ st.updAttempted /\ ~st.success
                        \/ onSaveCallback = "contact" /\ ~env.pre]

\* if (!projectData.name) return;
SaveBlocked(projectData, p) ==
    /\ last' = [Last("save") EXCEPT !.blocked = TRUE, !.proj = p,
                     !.pd = projectData, !.txBefore = dbTransactions,
                     !.stored = dbProjects[p]]
    /\ UNCHANGED <<dbProjects, dbTransactions, allTransactions,
                   allProjects, agg, form, monthlyGoal>>

SaveOf(projectData, p, env) ==
    IF projectData.name = ""
    THEN SaveBlocked(projectData, p)
    ELSE SaveCommit(SaveResultOf(projectData, p, env), projectData, p, env)

save(env) ==
    /\ Usable(form)
    /\ saves < MaxSaves
    /\ saves' = saves + 1
    /\ SaveOf(getFormData(form), form.editingProjectId, env)
    /\ UNCHANGED <<currentDate, onSaveCallback, nextMid, dayModal, pending, monthlyGoal>>

\* ---- other handlers -----------------------------------------------------
\* the postgres_changes listeners of setupSupabaseListener
RealtimeRefetch ==
    /\ (allTransactions # dbTransactions \/ allProjects # dbProjects
        \/ agg # processAllTransactions(dbTransactions,
                       ProjectDataOf(dbProjects), currentDate))
    /\ allTransactions' = dbTransactions
    /\ allProjects' = dbProjects
    /\ agg' = processAllTransactions(dbTransactions, ProjectDataOf(dbProjects),
                                     currentDate)
    /\ last' = Last("idle")
    /\ UNCHANGED <<dbProjects, dbTransactions, currentDate, form,
                   onSaveCallback, nextMid, saves, dayModal, pending,
                   monthlyGoal>>

\* createContactProjects: opening a contact's page registers its callback
OpenContactPage ==
    /\ onSaveCallback # "contact"
    /\ ~form.open
    /\ onSaveCallback' = "contact"
    /\ last' = Last("idle")
    /\ UNCHANGED <<dbProjects, dbTransactions, allTransactions, allProjects,
                   currentDate, agg, form, nextMid, saves, dayModal, pending,
                   monthlyGoal>>

Next ==
    \/ \E p \in ProjectIds : OpenForEdit(p)
    \/ StatusConfirm
    \/ \E status \in StatusInputs : handleStatusButtonClick(status)
    \/ \E paymentType \in {"full", "staggered"} : handlePaymentTypeChange(paymentType)
    \/ ToggleFullCompleted
    \/ \E i \in 1..MaxRows : ToggleMilestoneCompleted(i)
    \/ \E i \in 1..MaxRows : RemoveMilestoneRow(i)
    \/ \E env \in Envs : save(env)
    \/ RealtimeRefetch
    \/ OpenContactPage

Spec == Init /\ [][Next]_vars

\* ---- the form alone: every handler of the payment section, no save -----
NextForm ==
    \/ \E p \in ProjectIds : OpenForEdit(p)
    \/ StatusConfirm
    \/ CloseForm
    \/ \E status \in manualStatuses : handleStatusButtonClick(status)
    \/ \E paymentType \in {"full", "staggered"} : handlePaymentTypeChange(paymentType)
    \/ ToggleFullCompleted
    \/ \E i \in 1..MaxRows : ToggleMilestoneCompleted(i)
    \/ \E i \in 1..MaxRows, value \in PctInputs : SetMilestonePercentage(i, value)
    \/ handleAddMilestone
    \/ \E i \in 1..MaxRows : RemoveMilestoneRow(i)

SpecForm == Init /\ [][NextForm]_vars

\* ---- the calendar page alone: entries and month navigation -------------
\* the months the navigation of the model visits
FirstViewed == MonthDate(2024, 12)
LastViewed == MonthDate(2025, 11)
MonthIndex(d) == d.y * 12 + d.m

\* modals.js handleSaveEntry for a new income, expense or payable entry
\* with a valid amount, on the selected day
handleSaveEntry(kind, selectedDate, ok) ==
    /\ Len(dbTransactions) < MaxEntries
    /\ LET entryData == Tx(0, kind.type, "Entry", "", kind.amount, selectedDate,
                           <<0, 0>>)
           st == saveEntry(SaveStart, entryData, ok)
       IN  /\ dbTransactions' = st.db
           /\ allTransactions' = st.cache
           /\ allProjects' = st.projCache
           /\ agg' = st.agg
    /\ dayModal' = IF ok THEN [dayModal EXCEPT !.currentSelectedDate = ""]
                   ELSE dayModal
    /\ last' = Last("idle")
    /\ UNCHANGED <<dbProjects, currentDate, form, onSaveCallback, nextMid, saves,
                   pending, monthlyGoal>>

\* modals.js handleDeleteTransaction for a listed transaction, confirmed
handleDeleteTransaction(transactionId, ok) ==
    /\ \E i \in 1..Len(allTransactions) : allTransactions[i].id = transactionId
    /\ LET st == deleteTransaction(SaveStart, transactionId, ok)
       IN  /\ dbTransactions' = st.db
           /\ allTransactions' = st.cache
           /\ allProjects' = st.projCache
           /\ agg' = st.agg
           /\ dayModal' =
                  IF ok /\ dayModal.currentSelectedDate # ""
                  THEN renderCurrentDayEntries(st.cache, st.projCache,
                           dayModal.currentSelectedDate,
                           dayModal.currentSelectedDate)
                  ELSE dayModal
    /\ last' = Last("idle")
    /\ UNCHANGED <<dbProjects, currentDate, form, onSaveCallback, nextMid, saves,
                   pending, monthlyGoal>>

\* the click handlers of setupCalendarNavigation
MonthClick(date) ==
    /\ currentDate' = date
    /\ LET st == refetchTransactionData(SaveStart, date)
       IN  /\ allTransactions' = st.cache
           /\ allProjects' = st.projCache
           /\ agg' = st.agg
    /\ last' = Last("idle")
    /\ UNCHANGED <<dbProjects, dbTransactions, form, onSaveCallback, nextMid,
                   saves, dayModal, pending, monthlyGoal>>

prevMonthClick ==
    /\ MonthIndex(currentDate) > MonthIndex(FirstViewed)
    /\ MonthClick(PreviousMonth(currentDate))

nextMonthClick ==
    /\ MonthIndex(currentDate) < MonthIndex(LastViewed)
    /\ MonthClick(FollowingMonth(currentDate))

InitAgg ==
    /\ dbProjects = [p \in ProjectIds |->
                        Project("invoice", FullSchedule(DUE1, FALSE))]
    /\ dbTransactions = <<>>
    /\ allTransactions = dbTransactions
    /\ allProjects = dbProjects
    /\ currentDate = MonthDate(2025, 8)
    /\ agg = processAllTransactions(dbTransactions, ProjectDataOf(dbProjects),
                                    currentDate)
    /\ form = BlankForm
    /\ onSaveCallback = "sidebar"
    /\ nextMid = 3
    /\ saves = 0
    /\ last = Last("idle")
    /\ dayModal = NoDayModal
    /\ pending = <<>>
    /\ monthlyGoal = NoGoal

NextAgg ==
    \/ \E kind \in EntryKinds, selectedDate \in EntryDates, ok \in BOOLEAN :
           handleSaveEntry(kind, selectedDate, ok)
    \/ \E transactionId \in 1..(MaxEntries + 1), ok \in BOOLEAN :
           handleDeleteTransaction(transactionId, ok)
    \/ prevMonthClick
    \/ nextMonthClick

SpecAgg == InitAgg /\ [][NextAgg]_vars

\* ==== properties of the payment reconciliation (Spec) ====================
\* the state right after a save() that passed the name check
Saved == last.act = "save" /\ ~last.blocked

SubmittedSchedule == last.pd.payment_schedule
PreviousSchedule == last.stored.payment_schedule

\* the income operations of the last save, engine first, then callback
IncomeOps == last.eng \o last.cb
CreatedOps == SelectSeq(IncomeOps, LAMBDA op : op.kind = "create" /\ op.ok)
FailedOps == SelectSeq(IncomeOps, LAMBDA op : ~op.ok)

DueOrToday(due) == IF due = "" THEN TODAY ELSE due

\* the status the specification derives from the flags of a schedule
ActiveMilestones(ms) == {i \in 1..Len(ms) : ms[i].percentage > 0}
CompletedActive(ms) == {i \in ActiveMilestones(ms) : ms[i].completed}
DerivedStatus(type, completed, ms) ==
    IF type = "staggered"
    THEN IF ActiveMilestones(ms) = {} \/ CompletedActive(ms) = {} THEN "invoice"
         ELSE IF CompletedActive(ms) = ActiveMilestones(ms) THEN "completed"
         ELSE "partially_paid"
    ELSE IF completed THEN "completed" ELSE "invoice"

\* C1: at any time the store holds at most one income record created for
\* one milestone, or for the full schedule, of one project.
C1_AtMostOneIncomePerSchedule ==
    \A i, j \in 1..Len(dbTransactions) :
        (i # j /\ dbTransactions[i].type = "income"
               /\ dbTransactions[j].type = "income")
            => dbTransactions[i].src # dbTransactions[j].src

\* C2: a save of a full schedule, with no store operation rejected, that
\* turns completed from false to true creates exactly one income record, of
\* amount total_amount, and removes none; one that turns it from true to
\* false creates none and removes the schedule's record when the store had it.
C2_FullScheduleToggle ==
    (Saved /\ ~last.rejected
           /\ SubmittedSchedule.type = "full" /\ PreviousSchedule.type = "full")
    => /\ (~PreviousSchedule.completed /\ SubmittedSchedule.completed)
            => /\ Len(CreatedOps) = 1
               /\ CreatedOps[1].rec.amount = last.pd.total_amount
               /\ Len(dbTransactions) = Len(last.txBefore) + 1
       /\ (PreviousSchedule.completed /\ ~SubmittedSchedule.completed)
            => /\ CreatedOps = <<>>
               /\ \A i \in 1..Len(last.txBefore) :
                      last.txBefore[i].src = <<last.proj, 0>>
                          => last.txBefore[i] \notin Range(dbTransactions)

\* C3: a save in which no milestone (followed by its identity) and no full
\* schedule changes its completed flag relative to the stored version leaves
\* the transaction store as it was.
NoFlagChange ==
    \/ /\ SubmittedSchedule.type = "full" /\ PreviousSchedule.type = "full"
       /\ SubmittedSchedule.completed = PreviousSchedule.completed
    \/ /\ SubmittedSchedule.type = "staggered" /\ PreviousSchedule.type = "staggered"
       /\ \A i \in 1..Len(SubmittedSchedule.milestones) :
              \E j \in 1..Len(PreviousSchedule.milestones) :
                  /\ PreviousSchedule.milestones[j].mid = SubmittedSchedule.milestones[i].mid
                  /\ PreviousSchedule.milestones[j].completed
                         = SubmittedSchedule.milestones[i].completed

C3_NoChangeNoEffect ==
    (Saved /\ NoFlagChange) => dbTransactions = last.txBefore

\* C4: a save that submits a staggered schedule creates no full-payment
\* income record, whatever the milestones' flags: every income record it
\* inserts is a milestone record.
IsFullPaymentRecord(rec) ==
    \/ rec.src[2] = 0
    \/ \E n \in Names : rec.title \in {FullTitle(n), "Payment from " \o n}

C4_StaggeredNeverFull ==
    (Saved /\ SubmittedSchedule.type = "staggered")
    => /\ \A k \in 1..Len(IncomeOps) :
              IncomeOps[k].kind = "create" => ~IsFullPaymentRecord(IncomeOps[k].rec)
       /\ \A i \in 1..Len(dbTransactions) :
              IsFullPaymentRecord(dbTransactions[i])
                  => dbTransactions[i] \in Range(last.txBefore)

C4_Witness ==
    /\ Saved /\ last.success
    /\ SubmittedSchedule.type = "staggered"
    /\ Len(SubmittedSchedule.milestones) = 2
    /\ \A i \in 1..2 : SubmittedSchedule.milestones[i].completed
    /\ CreatedOps # <<>>
    /\ dbProjects[last.proj].status = "completed"

\* C5: every income record a save inserts is dated at the due_date of its
\* milestone or full schedule (today when that is empty), has the amount
\* total_amount * percentage / 100 or total_amount, and the title
\* "Milestone payment from {project}" or "Project Payment: {project}".
C5_CreatedRecordShape ==
    Saved =>
        \A k \in 1..Len(CreatedOps) :
            LET op == CreatedOps[k]
            IN  IF op.slot = 0
                THEN /\ op.rec.date = DueOrToday(SubmittedSchedule.due_date)
                     /\ op.rec.amount = last.pd.total_amount
                     /\ op.rec.title = FullTitle(last.pd.name)
                ELSE LET m == SubmittedSchedule.milestones[op.slot]
                     IN  /\ op.rec.date = DueOrToday(m.due_date)
                         /\ op.rec.amount = (last.pd.total_amount * m.percentage) \div 100
                         /\ op.rec.title = MilestoneTitle(last.pd.name)

\* C6: a removal of the engine that finds a record finds an income record
\* with the deterministic title and, the store accepting, deletes it; the
\* first removal finds a record when the store holds a matching one; and a
\* save whose only income operations are removals finding nothing, with no
\* store operation rejected, leaves the transaction store unchanged, shows
\* no alert and stores the submitted project.
DeterministicTitle(op) ==
    IF op.slot = 0 THEN FullTitle(last.pd.name) ELSE MilestoneTitle(last.pd.name)

OnlyMissedRemovals ==
    /\ IncomeOps # <<>>
    /\ \A k \in 1..Len(IncomeOps) :
           IncomeOps[k].kind = "remove" /\ ~IncomeOps[k].found

C6_RemovalOnUnpaid ==
    Saved =>
        /\ \A k \in 1..Len(last.eng) :
               LET op == last.eng[k]
               IN  (op.kind = "remove" /\ op.found)
                   => /\ op.rec.type = "income"
                      /\ op.rec.title = DeterministicTitle(op)
                      /\ op.ok => op.rec \notin Range(dbTransactions)
        /\ (last.eng # <<>> /\ last.eng[1].kind = "remove")
               => (last.eng[1].found
                   <=> \E i \in 1..Len(last.txBefore) :
                           /\ last.txBefore[i].type = "income"
                           /\ last.txBefore[i].title = DeterministicTitle(last.eng[1]))
        /\ (OnlyMissedRemovals /\ ~last.rejected)
               => /\ dbTransactions = last.txBefore
                  /\ last.alerts = <<>>
                  /\ last.success
                  /\ dbProjects[last.proj].status = last.pd.status
                  /\ dbProjects[last.proj].payment_schedule
                         = last.pd.payment_schedule

C6_Witness ==
    /\ Saved /\ OnlyMissedRemovals /\ ~last.rejected
    /\ PreviousSchedule.completed /\ ~SubmittedSchedule.completed
    /\ last.success

\* C7: when an income operation of one milestone is rejected during a save
\* of a staggered schedule, every milestone whose flag changed (by position,
\* as the handlers compare) still has its operation attempted, and the save
\* goes on to the project update.
ChangedSlots ==
    {i \in 1..Len(SubmittedSchedule.milestones) :
        analyzeMilestoneStatusChange(SubmittedSchedule.milestones[i],
            MilestoneAt(PreviousSchedule, i)) # "NO_CHANGE"}

NewlyPaidSlots ==
    {i \in 1..Len(SubmittedSchedule.milestones) :
        analyzeMilestoneStatusChange(SubmittedSchedule.milestones[i],
            MilestoneAt(PreviousSchedule, i)) = "NEWLY_PAID"}

C7_FailureDoesNotAbort ==
    (Saved /\ FailedOps # <<>>
           /\ SubmittedSchedule.type = "staggered"
           /\ PreviousSchedule.type = "staggered")
    => /\ \A i \in ChangedSlots : \E k \in 1..Len(last.eng) : last.eng[k].slot = i
       /\ last.callback = "contact"
              => \A i \in NewlyPaidSlots :
                     \E k \in 1..Len(last.cb) : last.cb[k].slot = i
       /\ last.updAttempted

\* C9: every stored project in stage invoice, partially_paid or completed
\* has the status derived from the flags of its stored payment_schedule.
C9_StoredStatusDerived ==
    \A p \in ProjectIds :
        dbProjects[p].status \in InvoiceStages
            => dbProjects[p].status =
                   DerivedStatus(dbProjects[p].payment_schedule.type,
                                 dbProjects[p].payment_schedule.completed,
                                 dbProjects[p].payment_schedule.milestones)

\* ==== properties of the form's status derivation (SpecForm) =============
\* C8: after a handler that runs autoUpdateProjectStatus, the status of a
\* form in stage invoice, partially_paid or completed is the derived one:
\* full -> completed if the flag is set, else invoice; staggered -> invoice
\* with no active (percentage > 0) row or no completed active row,
\* completed with every active row completed, partially_paid otherwise.
C8_DerivedStatus ==
    (last.act = "auto" /\ form.status \in InvoiceStages)
    => form.status = DerivedStatus(form.paymentType, form.fullCompleted, form.rows)

C8_Witness ==
    /\ last.act = "auto"
    /\ form.paymentType = "staggered"
    /\ form.status = "completed"
    /\ \E i \in 1..Len(form.rows) :
           form.rows[i].percentage = 0 /\ ~form.rows[i].completed

\* ==== properties of the monthly aggregation (SpecAgg) ====================
\* the year and the month a date string YYYY-MM-DD names
DigitValue(c) == (CHOOSE k \in 1..10 : DigitChars[k] = c) - 1

RECURSIVE NumberOf(_)
NumberOf(str) ==
    IF Len(str) = 0 THEN 0
    ELSE 10 * NumberOf(SubSeq(str, 1, Len(str) - 1))
         + DigitValue(SubSeq(str, Len(str), Len(str)))

YearOf(date) == NumberOf(SubSeq(date, 1, 4))
MonthOf(date) == NumberOf(SubSeq(date, 6, 7))

InMonth(t, y, m) == YearOf(t.date) = y /\ MonthOf(t.date) = m

RECURSIVE MonthSum(_, _, _, _)
MonthSum(txs, type, y, m) ==
    IF txs = <<>> THEN 0
    ELSE (IF Head(txs).type = type /\ InMonth(Head(txs), y, m)
          THEN Head(txs).amount ELSE 0)
         + MonthSum(Tail(txs), type, y, m)

PrecedingYear == IF currentDate.m = 1 THEN currentDate.y - 1 ELSE currentDate.y
PrecedingMonth == IF currentDate.m = 1 THEN 12 ELSE currentDate.m - 1

\* C10: the four monthly figures are the sums of the income / expense
\* amounts dated in the viewed month and in the month before it, and all
\* four are zero when no transaction is dated in either month.
C10_MonthlyAggregation ==
    /\ agg.thisMonth.cashIn
           = MonthSum(allTransactions, "income", currentDate.y, currentDate.m)
    /\ agg.thisMonth.cashOut
           = MonthSum(allTransactions, "expense", currentDate.y, currentDate.m)
    /\ agg.lastMonth.cashIn
           = MonthSum(allTransactions, "income", PrecedingYear, PrecedingMonth)
    /\ agg.lastMonth.cashOut
           = MonthSum(allTransactions, "expense", PrecedingYear, PrecedingMonth)
    /\ (\A i \in 1..Len(allTransactions) :
            /\ ~InMonth(allTransactions[i], currentDate.y, currentDate.m)
            /\ ~InMonth(allTransactions[i], PrecedingYear, PrecedingMonth))
       => /\ agg.thisMonth = ZeroMonth
          /\ agg.lastMonth = ZeroMonth

C10_Witness ==
    /\ currentDate = MonthDate(2025, 1)
    /\ agg.lastMonth.cashIn = 100
    /\ agg.lastMonth.cashOut = 40
    /\ agg.thisMonth = ZeroMonth

\* ==== the summary cards over several projects (SpecSummary) ==============
\* the stored projects the summary is computed from
SummaryIds == {1, 2}

SummarySchedules ==
    { [status |-> "invoice", schedule |-> FullSchedule("2025-08-05", FALSE)],
      [status |-> "completed", schedule |-> FullSchedule("2025-07-20", TRUE)],
      [status |-> "partially_paid", schedule |-> StaggeredSchedule(
           <<Milestone(50, "2025-07-05", TRUE, 1),
             Milestone(50, "2025-07-20", FALSE, 2)>>)],
      [status |-> "invoice", schedule |-> StaggeredSchedule(
           <<Milestone(50, "2025-07-20", FALSE, 1),
             Milestone(50, "2025-08-05", FALSE, 2)>>)],
      [status |-> "quotation", schedule |-> NullSchedule] }

SummaryProject(id, s) ==
    [Project(s.status, s.schedule) EXCEPT
         !.name = IF id = 1 THEN "A" ELSE "B",
         !.total_amount = IF id = 1 THEN 1000 ELSE 300]

InitSummary ==
    /\ \E s1 \in SummarySchedules, s2 \in SummarySchedules :
           dbProjects = [id \in SummaryIds |->
                            SummaryProject(id, IF id = 1 THEN s1 ELSE s2)]
    /\ dbTransactions = <<>>
    /\ allTransactions = dbTransactions
    /\ allProjects = dbProjects
    /\ currentDate = MonthDate(2025, 8)
    /\ agg = processAllTransactions(dbTransactions, ProjectDataOf(dbProjects),
                                    currentDate)
    /\ form = BlankForm
    /\ onSaveCallback = "sidebar"
    /\ nextMid = 3
    /\ saves = 0
    /\ last = Last("idle")
    /\ dayModal = NoDayModal
    /\ pending = <<>>
    /\ monthlyGoal = NoGoal

NextSummary ==
    \/ prevMonthClick
    \/ nextMonthClick

SpecSummary == InitSummary /\ [][NextSummary]_vars

\* a date string names the viewed month
InViewedMonth(date) ==
    /\ date # ""
    /\ YearOf(date) = currentDate.y
    /\ MonthOf(date) = currentDate.m

\* the project has a derived invoice (full or milestone) due in the viewed month
InvoiceDueInViewedMonth(project) ==
    /\ project.status \in InvoiceStages
    /\ \/ /\ project.payment_schedule.type = "full"
          /\ InViewedMonth(project.payment_schedule.due_date)
       \/ /\ project.payment_schedule.type = "staggered"
          /\ \E i \in 1..Len(project.payment_schedule.milestones) :
                 InViewedMonth(project.payment_schedule.milestones[i].due_date)

RECURSIVE SumOfTotals(_, _)
SumOfTotals(projects, ids) ==
    IF ids = {} THEN 0
    ELSE LET id == CHOOSE i \in ids : TRUE
         IN  projects[id].total_amount + SumOfTotals(projects, ids \ {id})

\* C11: thisMonth.totalInvoice is the sum of total_amount over the distinct
\* projects that have at least one derived invoice due in the viewed month;
\* a project with several milestones due in that month is counted once.
C11_TotalInvoiceOncePerProject ==
    agg.invoices.totalInvoice
        = SumOfTotals(allProjects,
              {id \in DOMAIN allProjects : InvoiceDueInViewedMonth(allProjects[id])})

C11_Witness ==
    /\ currentDate = MonthDate(2025, 7)
    /\ \A id \in SummaryIds :
           /\ allProjects[id].status = "partially_paid"
           /\ \A i \in 1..2 :
                  InViewedMonth(allProjects[id].payment_schedule.milestones[i].due_date)
    /\ agg.invoices.totalInvoice = 1300

\* ==== the quotation figures across a conversion (Spec) ===================
\* the quotation figures processAllTransactions gives for the month the
\* last recompute used, had the project stayed as it was stored
QuotationsBeforeSave ==
    processAllTransactions(<<>>,
        ProjectDataOf([id \in ProjectIds |-> last.stored]), agg.now).quotations

\* C12: a project with an amount is counted once in the quotation amount
\* and count of its month, and saving a quotation as an invoice leaves the
\* quotation figures of this month and of last month as they were.
C12_ConversionKeepsQuotation ==
    /\ agg.quotations.thisMonth.quotationCount
           + agg.quotations.lastMonth.quotationCount <= Cardinality(ProjectIds)
    /\ (/\ Saved /\ last.success
        /\ last.stored.status = "quotation"
        /\ last.pd.status \in InvoiceStages
        /\ last.pd.total_amount = last.stored.total_amount)
       => agg.quotations = QuotationsBeforeSave

\* ==== entries of any amount and the comparison lines (SpecEntry) =========
\* what the entry form accepts: parseFloat of #entryAmount, of either sign
SignedEntryKinds == {[type |-> "income", amount |-> 1000],
                     [type |-> "income", amount |-> 400],
                     [type |-> "income", amount |-> 0 - 5],
                     [type |-> "expense", amount |-> 40]}
SignedEntryDates == {"2025-08-05", "2025-07-20"}

NextEntry ==
    \/ \E kind \in SignedEntryKinds, selectedDate \in SignedEntryDates, ok \in BOOLEAN :
           handleSaveEntry(kind, selectedDate, ok)
    \/ \E transactionId \in 1..(MaxEntries + 1), ok \in BOOLEAN :
           handleDeleteTransaction(transactionId, ok)
    \/ prevMonthClick
    \/ nextMonthClick

SpecEntry == InitAgg /\ [][NextEntry]_vars

\* e is n / d rounded to the nearest integer (n >= 0, d > 0)
Rounded(e, n, d) == 2 * n - d <= 2 * e * d /\ 2 * e * d <= 2 * n + d

\* the comparison line shown for a metric is the one the rule gives
ComparisonAsStated(shown, current, previous, lowerIsBetter) ==
    /\ (current = 0 /\ previous = 0) => shown.text = "-"
    /\ (current # 0 /\ previous = 0) => (shown.text = "%" /\ shown.value = 100)
    /\ previous # 0
       => /\ shown.text = "%"
          /\ Rounded(shown.value, Abs(current - previous) * 100, Abs(previous))
    /\ (current # 0 \/ previous # 0)
       => shown.colorClass =
              IF current = previous THEN "text-gray-500"
              ELSE IF (current > previous) # lowerIsBetter THEN "text-green-600"
              ELSE "text-red-600"

\* C13: the change against last month is shown as no change when both
\* values are zero, as 100% when only the previous one is zero, otherwise
\* as (current - previous) / previous * 100; the colour is inverted for
\* cash-out.
C13_PercentageChange ==
    /\ ComparisonAsStated(agg.cashInComparison, agg.thisMonth.cashIn,
                          agg.lastMonth.cashIn, FALSE)
    /\ ComparisonAsStated(agg.cashOutComparison, agg.thisMonth.cashOut,
                          agg.lastMonth.cashOut, TRUE)

\* C20: every transaction record in the store has amount >= 0.
C20_AmountsNonNegative ==
    \A i \in 1..Len(dbTransactions) : dbTransactions[i].amount >= 0

\* ==== a project save while another month is viewed (SpecView) ============
\* the store accepts everything, or rejects the project update
ViewEnvs == {NoFailure, [NoFailure EXCEPT !.upd = FALSE]}

NextView ==
    \/ \E p \in ProjectIds : OpenForEdit(p)
    \/ StatusConfirm
    \/ ToggleFullCompleted
    \/ \E env \in ViewEnvs : save(env)
    \/ RealtimeRefetch
    \/ prevMonthClick
    \/ nextMonthClick

SpecView == InitAgg /\ [][NextView]_vars

\* C14: after every recompute the this-month and last-month aggregates are
\* those of the calendar month currently viewed and of the month before it.
C14_AggregatesOfViewedMonth ==
    /\ agg.now = currentDate
    /\ agg.thisMonth.cashIn
           = MonthSum(allTransactions, "income", currentDate.y, currentDate.m)
    /\ agg.lastMonth.cashIn
           = MonthSum(allTransactions, "income", PrecedingYear, PrecedingMonth)

\* ---- overlapping refetches ----------------------------------------------
\* A refetchTransactionData call started by a postgres_changes listener runs
\* beside the handlers: pending holds the calls in flight, each at one of its
\* awaits.
\*   "select"    before the answer of supabase.from('transactions').select
\*   "load"      data read; in the 100 ms delay or in loadProjectData
\*   "projects"  processAllTransactions done; in getProjectCalendarItems or
\*               apiClient.getAllProjects
Refetch(pc, viewedDate, data) == [pc |-> pc, viewedDate |-> viewedDate, data |-> data]

RaceKinds == {[type |-> "income", amount |-> 100]}

\* a row inserted into the table transactions (by saveEntry of this or of
\* another session of the user); the listener of the table starts a refetch
TransactionInserted(kind) ==
    /\ Len(dbTransactions) < MaxEntries
    /\ Len(pending) < MaxPending
    /\ dbTransactions' = Append(dbTransactions,
           Tx(FreshId(dbTransactions), kind.type, "Entry", "", kind.amount,
              DUE1, <<0, 0>>))
    /\ pending' = Append(pending, Refetch("select", currentDate, <<>>))
    /\ last' = Last("idle")
    /\ UNCHANGED <<dbProjects, allTransactions, allProjects, currentDate, agg,
                   form, onSaveCallback, nextMid, saves, dayModal,
                   monthlyGoal>>

\* a row of the table projects updated (the full payment marked paid or
\* unpaid); the listener of the table starts a refetch
ProjectUpdated(p) ==
    /\ Len(pending) < MaxPending
    /\ dbProjects[p].payment_schedule.type = "full"
    /\ dbProjects' = [dbProjects EXCEPT
                         ![p].payment_schedule.completed = ~@]
    /\ pending' = Append(pending, Refetch("select", currentDate, <<>>))
    /\ last' = Last("idle")
    /\ UNCHANGED <<dbTransactions, allTransactions, allProjects, currentDate,
                   agg, form, onSaveCallback, nextMid, saves, dayModal,
                   monthlyGoal>>

\* const { data, error } = await supabase.from('transactions').select('*')
RefetchSelect(i) ==
    /\ i \in 1..Len(pending)
    /\ pending[i].pc = "select"
    /\ pending' = [pending EXCEPT ![i] = Refetch("load", @.viewedDate, dbTransactions)]
    /\ last' = Last("idle")
    /\ UNCHANGED <<dbProjects, dbTransactions, allTransactions, allProjects,
                   currentDate, agg, form, onSaveCallback, nextMid, saves,
                   dayModal, monthlyGoal>>

\* await loadProjectData(userId); processAllTransactions(data, viewedDate)
RefetchProcess(i) ==
    /\ i \in 1..Len(pending)
    /\ pending[i].pc = "load"
    /\ allTransactions' = pending[i].data
    /\ agg' = processAllTransactions(pending[i].data, ProjectDataOf(dbProjects),
                                     pending[i].viewedDate)
    /\ pending' = [pending EXCEPT ![i].pc = "projects"]
    /\ last' = Last("idle")
    /\ UNCHANGED <<dbProjects, dbTransactions, allProjects, currentDate, form,
                   onSaveCallback, nextMid, saves, dayModal, monthlyGoal>>

\* window.allProjects = (await apiClient.getAllProjects()).data; the call ends
RefetchProjects(i) ==
    /\ i \in 1..Len(pending)
    /\ pending[i].pc = "projects"
    /\ allProjects' = dbProjects
    /\ pending' = RemoveAt(pending, i)
    /\ last' = Last("idle")
    /\ UNCHANGED <<dbProjects, dbTransactions, allTransactions, currentDate, agg,
                   form, onSaveCallback, nextMid, saves, dayModal,
                   monthlyGoal>>

NextRace ==
    \/ \E kind \in RaceKinds : TransactionInserted(kind)
    \/ \E p \in ProjectIds : ProjectUpdated(p)
    \/ \E i \in 1..MaxPending : RefetchSelect(i)
    \/ \E i \in 1..MaxPending : RefetchProcess(i)
    \/ \E i \in 1..MaxPending : RefetchProjects(i)

SpecRace == InitAgg /\ [][NextRace]_vars

\* C15: once every overlapping refetch has completed, the transaction cache
\* and the project cache equal the latest contents of the store
C15_RefetchesConverge ==
    pending = <<>> => /\ allTransactions = dbTransactions
                      /\ allProjects = dbProjects

\* ---- the day modal beside the project form -------------------------------
\* openModal(dateString): a click on a day of the calendar
openModal(dateString) ==
    /\ dayModal' = renderCurrentDayEntries(allTransactions, allProjects,
                                           dateString, dateString)
    /\ last' = Last("openModal")
    /\ UNCHANGED <<dbProjects, dbTransactions, allTransactions, allProjects,
                   currentDate, agg, form, onSaveCallback, nextMid, saves,
                   pending, monthlyGoal>>

\* closeModal: the list element keeps its content
closeModal ==
    /\ dayModal.currentSelectedDate # ""
    /\ dayModal' = [dayModal EXCEPT !.currentSelectedDate = ""]
    /\ last' = Last("idle")
    /\ UNCHANGED <<dbProjects, dbTransactions, allTransactions, allProjects,
                   currentDate, agg, form, onSaveCallback, nextMid, saves,
                   pending, monthlyGoal>>

\* Two stored projects.  Project 1 is named A; project 2 carries the name a
\* user gave it, has one task due on DUE1 and was created already paid.
DayIds == {1, 2}
DayDates == {DUE1, TODAY}
DayTask == [description |-> "Design", due_date |-> DUE1, completed |-> FALSE]

DayProject(name, status, schedule, tasks) ==
    [Project(status, schedule) EXCEPT !.name = name, !.tasks = tasks]

PaidFirstMilestoneRecord ==
    Tx(1, "income", MilestoneTitle("A"), MilestoneDescription("A", 1), 500,
       DUE1, <<1, 1>>)

DayStores ==
    { [first |-> DayProject("A", "invoice", FullSchedule(DUE1, FALSE), <<>>),
       tx |-> <<>>],
      [first |-> DayProject("A", "partially_paid", StaggeredSchedule(
           <<Milestone(50, DUE1, TRUE, 1), Milestone(50, DUE1, FALSE, 2)>>), <<>>),
       tx |-> <<PaidFirstMilestoneRecord>>] }

InitDay ==
    /\ \E s \in DayStores :
           /\ dbProjects = [p \in DayIds |->
                  IF p = 1 THEN s.first
                  ELSE DayProject(FullTitle("A"), "completed",
                                  FullSchedule(DUE1, TRUE), <<DayTask>>)]
           /\ dbTransactions = s.tx
    /\ allTransactions = dbTransactions
    /\ allProjects = dbProjects
    /\ currentDate = MonthDate(2025, 8)
    /\ agg = processAllTransactions(dbTransactions, ProjectDataOf(dbProjects),
                                    currentDate)
    /\ form = BlankForm
    /\ onSaveCallback = "sidebar"
    /\ nextMid = 3
    /\ saves = 0
    /\ last = Last("idle")
    /\ dayModal = NoDayModal
    /\ pending = <<>>
    /\ monthlyGoal = NoGoal

NextDay ==
    \/ \E p \in DayIds : OpenForEdit(p)
    \/ StatusConfirm
    \/ ToggleFullCompleted
    \/ \E i \in 1..MaxRows : ToggleMilestoneCompleted(i)
    \/ \E env \in ViewEnvs : save(env)
    \/ \E dateString \in DayDates : openModal(dateString)
    \/ closeModal

SpecDay == InitDay /\ [][NextDay]_vars

\* C16: no paid invoice or milestone is among the payables that
\* getTransactionsForDate returned for the opened day
C16_NoPaidPayable ==
    \A i \in 1..Len(dayModal.transactions) :
        dayModal.transactions[i].source = "invoice"
            => ~dayModal.transactions[i].is_paid

\* the income records the payment reconciliation created: src names the
\* project and the milestone (0: the full payment)
IsPaymentIncome(t) == t.type = "income" /\ t.src # <<0, 0>>

\* C17: right after the day modal was opened, every income record created by
\* a completed payment and dated on the opened day is among the entries
\* getTransactionsForDate returned, as an income entry
C17_PaymentIncomeListed ==
    last.act = "openModal" =>
        \A i \in 1..Len(allTransactions) :
            (IsPaymentIncome(allTransactions[i])
             /\ allTransactions[i].date = dayModal.currentSelectedDate)
            => \E k \in 1..Len(dayModal.transactions) :
                   /\ dayModal.transactions[k].source = "transaction"
                   /\ dayModal.transactions[k].ref = <<allTransactions[i].id, 0>>
                   /\ dayModal.transactions[k].type = "income"

\* the positions of allEntries whose key no earlier position has
FirstOfKey(allEntries, selectedDate) ==
    {i \in 1..Len(allEntries) :
        \A j \in 1..(i - 1) :
            createEntryKey(allEntries[j], selectedDate)
                # createEntryKey(allEntries[i], selectedDate)}

\* C18: the listed entries of the day have pairwise different dedup keys, and
\* they are, in source order, the first entry of every key
C18_DayListDeduplicated ==
    dayModal.currentSelectedDate # "" =>
        LET selectedDate == dayModal.currentSelectedDate
            entries == dayModal.entries
            firsts == FirstOfKey(dayModal.allEntries, selectedDate)
        IN  /\ \A i, j \in 1..Len(entries) :
                   i # j => createEntryKey(entries[i], selectedDate)
                                # createEntryKey(entries[j], selectedDate)
            /\ Len(entries) = Cardinality(firsts)
            /\ \A k \in 1..Len(entries) :
                   \E i \in firsts :
                       /\ Cardinality({j \in firsts : j < i}) = k - 1
                       /\ entries[k] = dayModal.allEntries[i]

\* a day whose sources hold two entries of one key and more than one key
C18_Witness ==
    /\ dayModal.currentSelectedDate # ""
    /\ Len(dayModal.entries) < Len(dayModal.allEntries)
    /\ Len(dayModal.entries) >= 2
    /\ last.act = "openModal"
    /\ saves > 0

\* ---- validation and save -------------------------------------------------
\* validateProjectData: the errors about the name and the total amount
\* (total_amount null is 0 here); getFormData logs the result and returns
\* the data all the same
validateProjectData(projectData) ==
    LET errors ==
            (IF projectData.name = "" THEN {"Project name is required"} ELSE {})
            \cup (IF projectData.status \in AmountStages
                     /\ projectData.total_amount <= 0
                  THEN {"Total amount must be greater than 0"} ELSE {})
    IN  [isValid |-> errors = {}, errors |-> errors]

NameInputs == {"", "A"}
AmountInputs == {0, 1000}

\* the user types into #projectName
SetProjectName(name) ==
    /\ Usable(form)
    /\ form.name # name
    /\ FormOnly([form EXCEPT !.name = name], "idle")

\* the user types into #total_amount
SetTotalAmount(value) ==
    /\ Usable(form)
    /\ form.status \in AmountStages
    /\ form.total_amount # value
    /\ FormOnly([form EXCEPT !.total_amount = value], "idle")

NextValidate ==
    \/ \E p \in ProjectIds : OpenForEdit(p)
    \/ StatusConfirm
    \/ \E name \in NameInputs : SetProjectName(name)
    \/ \E value \in AmountInputs : SetTotalAmount(value)
    \/ ToggleFullCompleted
    \/ \E env \in ViewEnvs : save(env)

SpecValidate == InitAgg /\ [][NextValidate]_vars

\* C19: a save of data with an empty name or a non-positive total amount
\* (for a status that needs one) is blocked and leaves the store as it was;
\* a save of data without such an error is not blocked
C19_SaveBlockedOnHardError ==
    last.act = "save" =>
        IF validateProjectData(last.pd).isValid
        THEN ~last.blocked
        ELSE /\ last.blocked
             /\ dbTransactions = last.txBefore
             /\ dbProjects[last.proj] = last.stored

\* ---- stored schedules of older shapes -------------------------------------
\* payment_schedule is stored as JSON without a schema.  The rows below hold
\* null, a schedule without the property type (read as undefined, "" here)
\* and a staggered schedule without the property milestones.
LegacySchedules ==
    { NullSchedule,
      [type |-> "", due_date |-> DUE1, completed |-> FALSE, milestones |-> <<>>],
      [type |-> "staggered", due_date |-> "", completed |-> FALSE] }

InitLegacy ==
    /\ \E schedule \in LegacySchedules :
           dbProjects = [p \in ProjectIds |-> Project("invoice", schedule)]
    /\ dbTransactions = <<>>
    /\ allTransactions = dbTransactions
    /\ allProjects = dbProjects
    /\ currentDate = MonthDate(2025, 8)
    /\ agg = processAllTransactions(dbTransactions, ProjectDataOf(dbProjects),
                                    currentDate)
    /\ form = BlankForm
    /\ onSaveCallback = "sidebar"
    /\ nextMid = 3
    /\ saves = 0
    /\ last = Last("idle")
    /\ dayModal = NoDayModal
    /\ pending = <<>>
    /\ monthlyGoal = NoGoal

NextLegacy ==
    \/ \E p \in ProjectIds : OpenForEdit(p)
    \/ StatusConfirm
    \/ \E paymentType \in {"full", "staggered"} : handlePaymentTypeChange(paymentType)
    \/ ToggleFullCompleted
    \/ handleAddMilestone
    \/ \E i \in 1..MaxRows : ToggleMilestoneCompleted(i)
    \/ \E env \in ViewEnvs : save(env)

SpecLegacy == InitLegacy /\ [][NextLegacy]_vars

IsLegacySchedule(schedule) ==
    \/ schedule.type \notin {"full", "staggered"}
    \/ "milestones" \notin DOMAIN schedule

\* C21: with a stored schedule that is null or lacks type or milestones, no
\* handler throws, and the loader derives no invoice from the project
C21_LegacyScheduleTolerated ==
    /\ ~last.threw
    /\ \A p \in DOMAIN allProjects :
           IsLegacySchedule(allProjects[p].payment_schedule)
               => LET invoices == ProjectDataOf(allProjects).invoices
                  IN  \A i \in 1..Len(invoices) : invoices[i].project_id # p

\* ---- milestone rows with any percentage ---------------------------------
\* what the user types into .milestone-percentage, as parseFloat reads it
\* (0: empty or not a number)
RowInputs == {-10, 0, 50, 150}

NextRows ==
    \/ \E p \in ProjectIds : OpenForEdit(p)
    \/ StatusConfirm
    \/ \E paymentType \in {"full", "staggered"} : handlePaymentTypeChange(paymentType)
    \/ \E i \in 1..MaxRows, value \in RowInputs : SetMilestonePercentage(i, value)
    \/ \E i \in 1..MaxRows : ToggleMilestoneCompleted(i)
    \/ \E env \in ViewEnvs : save(env)

SpecRows == Init /\ [][NextRows]_vars

\* the rows of the form whose percentage is a number above 0
PositiveRows(rows) == SelectSeq(rows, LAMBDA row : row.percentage > 0)

\* milestones are the rows, one for one and in order, with percentages in
\* (0, 100]
MilestonesAreRows(milestones, rows) ==
    /\ Len(milestones) = Len(rows)
    /\ \A k \in 1..Len(milestones) :
           /\ milestones[k].mid = rows[k].mid
           /\ milestones[k].completed = rows[k].completed
           /\ milestones[k].percentage > 0
           /\ milestones[k].percentage <= 100

\* C22: the milestones of the schedule built from the form, and stored by a
\* save, are exactly the rows with a percentage above 0, which are the rows
\* the status derivation counts as active and completed
C22_OnlyPositiveRowsSaved ==
    /\ StaggeredVisible(form) =>
           LET counts == CountMilestoneRows(form.rows, 0, 0)
               milestones == getFormData(form).payment_schedule.milestones
           IN  /\ MilestonesAreRows(milestones, PositiveRows(form.rows))
               /\ counts[1] = Len(milestones)
               /\ counts[2] = Len(SelectSeq(milestones, LAMBDA m : m.completed))
    /\ (Saved /\ last.success /\ SubmittedSchedule.type = "staggered") =>
           MilestonesAreRows(dbProjects[last.proj].payment_schedule.milestones,
                             PositiveRows(form.rows))

\* a saved form with one row at or below 0, one row above 100
C22_Witness ==
    /\ Saved /\ last.success /\ SubmittedSchedule.type = "staggered"
    /\ \E i, j \in 1..Len(form.rows) :
           form.rows[i].percentage <= 0 /\ form.rows[j].percentage > 100
    /\ Len(dbProjects[last.proj].payment_schedule.milestones) = 1

\* ---- ProjectFormData.validatePaymentSchedule ----------------------------
RECURSIVE TotalPercentage(_)
TotalPercentage(milestones) ==
    IF milestones = <<>> THEN 0
    ELSE Head(milestones).percentage + TotalPercentage(Tail(milestones))

\* the messages without the numbers they quote; getFormData runs the
\* validation through validateProjectData and logs what it returns
validatePaymentSchedule(paymentSchedule) ==
    IF paymentSchedule.type \notin {"full", "staggered"}
    THEN [errors |-> {"Invalid payment schedule type"}, warnings |-> {}]
    ELSE IF paymentSchedule.type = "full"
    THEN [errors |-> {}, warnings |-> {}]
    ELSE IF paymentSchedule.milestones = <<>>
    THEN [errors |-> {"Staggered payment must have at least one milestone"},
          warnings |-> {}]
    ELSE [errors |->
              (IF \E i \in 1..Len(paymentSchedule.milestones) :
                      paymentSchedule.milestones[i].percentage <= 0
               THEN {"Milestone has invalid percentage"} ELSE {})
              \cup (IF \E i \in 1..Len(paymentSchedule.milestones) :
                          paymentSchedule.milestones[i].percentage > 100
                    THEN {"Milestone percentage cannot exceed 100%"} ELSE {})
              \cup (IF TotalPercentage(paymentSchedule.milestones) > 100
                    THEN {"Milestone percentages total must equal 100%"}
                    ELSE {}),
          warnings |->
              IF TotalPercentage(paymentSchedule.milestones) < 100
              THEN {"Milestone percentages total, consider adding more milestones"}
              ELSE {}]

\* C23: for a saved staggered schedule whose percentages do not sum to 100
\* the validation gives a warning and no error
C23_TotalIsWarning ==
    (Saved /\ SubmittedSchedule.type = "staggered"
           /\ SubmittedSchedule.milestones # <<>>
           /\ TotalPercentage(SubmittedSchedule.milestones) # 100)
    => /\ validatePaymentSchedule(SubmittedSchedule).warnings # {}
       /\ validatePaymentSchedule(SubmittedSchedule).errors = {}

\* ---- the payable rate (SpecSummary) --------------------------------------
\* the amount of the paid milestones, from index on, due in the viewed month
RECURSIVE PaidMilestonesInViewedMonth(_, _)
PaidMilestonesInViewedMonth(project, index) ==
    LET milestones == project.payment_schedule.milestones
    IN  IF index > Len(milestones) THEN 0
        ELSE (IF milestones[index].completed
                 /\ InViewedMonth(milestones[index].due_date)
              THEN (project.total_amount * milestones[index].percentage) \div 100
              ELSE 0)
             + PaidMilestonesInViewedMonth(project, index + 1)

\* the amount of the paid invoices of a project due in the viewed month
PaidInViewedMonth(project) ==
    IF project.status \notin InvoiceStages THEN 0
    ELSE IF project.payment_schedule.type = "full"
    THEN (IF project.payment_schedule.completed
             /\ InViewedMonth(project.payment_schedule.due_date)
          THEN project.total_amount ELSE 0)
    ELSE IF project.payment_schedule.type = "staggered"
    THEN PaidMilestonesInViewedMonth(project, 1)
    ELSE 0

RECURSIVE SumOfPaid(_, _)
SumOfPaid(projects, ids) ==
    IF ids = {} THEN 0
    ELSE LET id == CHOOSE i \in ids : TRUE
         IN  PaidInViewedMonth(projects[id]) + SumOfPaid(projects, ids \ {id})

\* C24: #payableComparison shows "No invoices" exactly when the total invoice
\* amount of the viewed month is 0, and otherwise the paid amount of the
\* month divided by that total, times 100, rounded to a whole number
C24_PayableRate ==
    LET total == SumOfTotals(allProjects,
                     {id \in DOMAIN allProjects :
                          InvoiceDueInViewedMonth(allProjects[id])})
        paid == SumOfPaid(allProjects, DOMAIN allProjects)
        shown == agg.payableComparison
    IN  /\ (shown.text = "No invoices this month") <=> (total = 0)
        /\ total # 0 =>
               /\ shown.text = "% of invoices paid"
               /\ 2 * Abs(shown.rate * total - 100 * paid) <= total

\* July 2025 viewed, with invoices of which a part is paid
C24_Witness ==
    /\ currentDate = MonthDate(2025, 7)
    /\ agg.invoices.totalInvoice = 1300
    /\ agg.invoices.paidInvoiceAmount = 500
    /\ agg.payableComparison.rate = 38

\* ---- a project with two paid milestones ----------------------------------
\* Both milestones were marked paid by earlier edits on the calendar page;
\* the store holds the income record of each.
InitReconciled ==
    /\ dbProjects = [p \in ProjectIds |->
                        Project("completed", StaggeredSchedule(
                            <<Milestone(50, DUE1, TRUE, 1),
                              Milestone(50, "", TRUE, 2)>>))]
    /\ dbTransactions = <<PaidFirstMilestoneRecord,
                          [PaidMilestoneRecord EXCEPT !.id = 2]>>
    /\ allTransactions = dbTransactions
    /\ allProjects = dbProjects
    /\ currentDate = MonthDate(2025, 8)
    /\ agg = processAllTransactions(dbTransactions, ProjectDataOf(dbProjects),
                                    currentDate)
    /\ form = BlankForm
    /\ onSaveCallback = "sidebar"
    /\ nextMid = 3
    /\ saves = 0
    /\ last = Last("idle")
    /\ dayModal = NoDayModal
    /\ pending = <<>>
    /\ monthlyGoal = NoGoal

NextReconciled ==
    \/ \E p \in ProjectIds : OpenForEdit(p)
    \/ StatusConfirm
    \/ \E i \in 1..MaxRows : ToggleMilestoneCompleted(i)
    \/ \E i \in 1..MaxRows : RemoveMilestoneRow(i)
    \/ \E env \in Envs : save(env)
    \/ OpenContactPage

SpecReconciled == InitReconciled /\ [][NextReconciled]_vars

\* C25: the income record a save removes for a milestone, or for the full
\* schedule, that went from paid to unpaid is the record created for that
\* milestone of that project
C25_RemovesOwnRecord ==
    Saved =>
        \A k \in 1..Len(last.eng) :
            (last.eng[k].kind = "remove" /\ last.eng[k].found /\ last.eng[k].ok)
            => last.eng[k].rec.src = <<last.proj, last.eng[k].mid>>

\* ---- the income of one project (Spec) ------------------------------------
\* the sum of the amounts of the income records that name project p
RECURSIVE IncomeOfProject(_, _)
IncomeOfProject(transactions, p) ==
    IF transactions = <<>> THEN 0
    ELSE (IF Head(transactions).type = "income" /\ Head(transactions).src[1] = p
          THEN Head(transactions).amount ELSE 0)
         + IncomeOfProject(Tail(transactions), p)

\* C26: the income records created for a project and not removed never sum
\* to more than the project's total_amount
C26_IncomeWithinTotal ==
    \A p \in DOMAIN dbProjects :
        IncomeOfProject(dbTransactions, p) <= dbProjects[p].total_amount

\* C27: a save whose project update fails (the store rejects it, or the
\* callback answers false) leaves the transaction store as it was before
\* the save
C27_FailedSaveLeavesTransactions ==
    (Saved /\ ~last.success) => dbTransactions = last.txBefore

\* ---- rows removed or added between two saves (Spec) ----------------------
MidsOf(milestones) == {milestones[i].mid : i \in 1..Len(milestones)}

\* the milestones that are both in the stored and in the submitted schedule
SurvivingMids ==
    MidsOf(SubmittedSchedule.milestones) \cap MidsOf(PreviousSchedule.milestones)

RowsChanged ==
    MidsOf(SubmittedSchedule.milestones) # MidsOf(PreviousSchedule.milestones)

SurvivorsKeepFlag ==
    \A i \in 1..Len(SubmittedSchedule.milestones) :
        \A j \in 1..Len(PreviousSchedule.milestones) :
            PreviousSchedule.milestones[j].mid = SubmittedSchedule.milestones[i].mid
                => PreviousSchedule.milestones[j].completed
                       = SubmittedSchedule.milestones[i].completed

\* C28: a save that removes or adds a milestone row and changes the
\* completed flag of no surviving milestone creates and deletes no income
\* record for a surviving milestone
C28_SurvivorsUntouched ==
    (/\ Saved
     /\ SubmittedSchedule.type = "staggered"
     /\ PreviousSchedule.type = "staggered"
     /\ RowsChanged
     /\ SurvivorsKeepFlag)
    => \A k \in 1..Len(IncomeOps) : IncomeOps[k].mid \notin SurvivingMids

\* ---- the day list over entered transactions (SpecListed) -----------------
\* entries a user types into the entry form, titled alike, on two days
NextListed ==
    \/ \E kind \in EntryKinds, selectedDate \in DayDates, ok \in BOOLEAN :
           handleSaveEntry(kind, selectedDate, ok)
    \/ \E transactionId \in 1..(MaxEntries + 1), ok \in BOOLEAN :
           handleDeleteTransaction(transactionId, ok)
    \/ \E dateString \in DayDates : openModal(dateString)
    \/ closeModal

SpecListed == InitAgg /\ [][NextListed]_vars

\* C29: right after the day modal was opened, every stored transaction that
\* getTransactionsForDate returned for the opened day is an entry of the
\* day list
C29_StoredTransactionsListed ==
    last.act = "openModal" =>
        \A i \in 1..Len(dayModal.transactions) :
            dayModal.transactions[i].source = "transaction"
            => \E k \in 1..Len(dayModal.entries) :
                   /\ dayModal.entries[k].source = "transaction"
                   /\ dayModal.entries[k].ref = dayModal.transactions[i].ref

\* ---- the monthly goal (SpecGoal) -----------------------------------------
GoalInputs == {NotANumber} \cup {Number(v) : v \in {0 - 50, 0, 200, 1000}}

\* the click handler of #save-goal-btn: saveMonthlyGoal (an upsert that the
\* store may reject), then fetchAndDisplayMonthlyGoal
saveGoalClick(goalAmount, upserted, selected) ==
    /\ IF goalAmount.nan \/ goalAmount.v < 0
       THEN UNCHANGED monthlyGoal
       ELSE monthlyGoal' = fetchAndDisplayMonthlyGoal(
                IF upserted THEN [exists |-> TRUE, goal_amount |-> goalAmount.v]
                ELSE monthlyGoal.row,
                selected, allTransactions)
    /\ last' = [Last("saveGoal") EXCEPT
                    !.blocked = goalAmount.nan \/ goalAmount.v < 0]
    /\ UNCHANGED <<dbProjects, dbTransactions, allTransactions, allProjects,
                   currentDate, agg, form, onSaveCallback, nextMid, saves,
                   dayModal, pending>>

NextGoal ==
    \/ \E kind \in SignedEntryKinds, selectedDate \in SignedEntryDates, ok \in BOOLEAN :
           handleSaveEntry(kind, selectedDate, ok)
    \/ \E transactionId \in 1..(MaxEntries + 1), ok \in BOOLEAN :
           handleDeleteTransaction(transactionId, ok)
    \/ \E goalAmount \in GoalInputs, upserted \in BOOLEAN, selected \in BOOLEAN :
           saveGoalClick(goalAmount, upserted, selected)

SpecGoal == InitAgg /\ [][NextGoal]_vars

\* C30: the progress shown on the goal card is between 0% and 100%: 0% for
\* a goal of 0, the income of the current month over the goal otherwise,
\* capped at 100%; and no negative goal is ever stored
C30_GoalProgressInRange ==
    /\ monthlyGoal.row.goal_amount >= 0
    /\ 0 <= monthlyGoal.width.n
    /\ monthlyGoal.width.n <= 100 * monthlyGoal.width.d
    /\ monthlyGoal.goalTarget = 0 => monthlyGoal.width.n = 0
====
